---- MODULE Spec2Model ----
(***************************************************************************)
(* A model of the retail analytics engines of pos-analytics-api:           *)
(*   src/src/modules/promotions.py    PromotionAnalyzer                    *)
(*   src/src/modules/data_quality.py  DataQualityChecker                   *)
(* The source dataset is a table (a sequence of transaction rows).  Every  *)
(* engine operation is one action: it reads the dataset, computes its      *)
(* whole result as the code does, and leaves it in ret (call names the     *)
(* operation and its arguments).  Numbers that pandas holds as floats are  *)
(* exact rationals here (a numerator and a denominator); a missing value   *)
(* (NaN / None) and a missing column are explicit cells.                   *)
(***************************************************************************)
EXTENDS Integers, Sequences, FiniteSets, TLC

VARIABLES df, call, ret, instance, DATA, threads, reads

vars == <<df, call, ret, instance, DATA, threads, reads>>

\* The engine instance a caller holds, the module global DATA of the API,
\* the threads of the API inside load_data and the number of times the
\* data file has been read.  They are at rest while an engine is studied
\* on its own.
service == <<instance, DATA, threads, reads>>
\* DATA is None, or holds one table.
None == <<>>
NoInstance == [kind |-> "none"]
AtRest ==
    /\ instance = NoInstance
    /\ DATA = None
    /\ threads = <<>>
    /\ reads = 0

(***************************************************************************)
(* Bounds of the model.                                                    *)
(***************************************************************************)
\* Longest dataset drawn from the free row domain.
MaxRows == 3

(***************************************************************************)
(* Cells: a number (num/den, den > 0), NaN, or a column the table lacks.   *)
(***************************************************************************)
Val(n, d) == [tag |-> "num", num |-> n, den |-> d]
Whole(n) == Val(n, 1)
NaN == [tag |-> "nan", num |-> 0, den |-> 1]
Absent == [tag |-> "absent", num |-> 0, den |-> 1]

IsNum(c) == c.tag = "num"
\* Comparisons of float cells; any comparison with NaN is False (numpy).
CellEq(a, b) == IsNum(a) /\ IsNum(b) /\ a.num * b.den = b.num * a.den
CellGt(a, b) == IsNum(a) /\ IsNum(b) /\ a.num * b.den > b.num * a.den
CellGe(a, b) == IsNum(a) /\ IsNum(b) /\ a.num * b.den >= b.num * a.den
CellLt(a, b) == IsNum(a) /\ IsNum(b) /\ a.num * b.den < b.num * a.den

\* A nullable field of a source row: <<>> is missing, <<v>> is the value v.
Missing == <<>>
Some(v) == <<v>>
NoSupplier == "<NA>"

RECURSIVE SumOver(_, _)
\* The sum of f[i] over the indices i of S.
SumOver(f, S) ==
    IF S = {} THEN 0
    ELSE LET i == CHOOSE j \in S : TRUE
         IN  f[i] + SumOver(f, S \ {i})

(***************************************************************************)
(* The dataset: rows with the columns of the wire format.                  *)
(***************************************************************************)
Stores == {"S1", "S2"}
DescriptionOf == [i \in {"I1", "I2"} |-> IF i = "I1" THEN "Soap" ELSE "Oil"]

\* SKU identities (Item_Code, Supplier); item I2 is sold by a named
\* supplier and also in rows that carry no supplier.
Bidco1 == <<"I1", "BIDCO">>
Acme2 == <<"I2", "ACME">>
Anon2 == <<"I2", NoSupplier>>

\* What a sale row can carry: quantity, total sales, RRP.  Unit price 9
\* against RRP 10 is a discount of exactly 10%.
Discounted == [Quantity |-> 3, Total_Sales |-> 27, RRP |-> Some(10)]
FullPrice == [Quantity |-> 2, Total_Sales |-> 20, RRP |-> Some(10)]
NearMiss == [Quantity |-> 10, Total_Sales |-> 91, RRP |-> Some(10)]
NoRRP == [Quantity |-> 1, Total_Sales |-> 9, RRP |-> Missing]
ZeroRRP == [Quantity |-> 1, Total_Sales |-> 9, RRP |-> Some(0)]
ZeroQty == [Quantity |-> 0, Total_Sales |-> 5, RRP |-> Some(10)]
\* The sales the promotion engine analyses, and those it must leave out.
ValidKinds == {Discounted, FullPrice}
InvalidKinds == {NoRRP, ZeroRRP, ZeroQty}

MkRow(store, sku, date, k) ==
    [Store |-> store, Item_Code |-> sku[1], Description |-> DescriptionOf[sku[1]],
     Supplier |-> sku[2], Date |-> date,
     Quantity |-> k.Quantity, Total_Sales |-> k.Total_Sales, RRP |-> k.RRP]

\* The free row domain: BIDCO sells I1 in both stores; I2 is sold in S2, by
\* ACME and in discounted rows without supplier; three rows are invalid.
PromoRows ==
    {MkRow(s, Bidco1, 1, k) : s \in Stores, k \in ValidKinds}
    \cup {MkRow("S2", Acme2, 1, k) : k \in ValidKinds}
    \cup {MkRow("S2", Anon2, 1, Discounted)}
    \cup {MkRow("S1", Bidco1, 1, k) : k \in InvalidKinds}

RECURSIVE SeqsUpTo(_, _)
\* All sequences over S of length at most n.
SeqsUpTo(S, n) ==
    IF n = 0 THEN {<<>>}
    ELSE LET shorter == SeqsUpTo(S, n - 1)
         IN  shorter \cup {Append(q, x) : q \in shorter, x \in S}

\* The end-to-end scenario of the specification: 3 stores x 2 SKUs, and at
\* store S1 the SKU I1 is sold on 5 days, discounted on the days of `days`.
ScenarioDataset(days) ==
    [i \in 1..5 |-> MkRow("S1", Bidco1, i,
                          IF i \in days THEN Discounted ELSE FullPrice)]
    \o <<MkRow("S1", Acme2, 1, FullPrice),
         MkRow("S2", Bidco1, 1, FullPrice),
         MkRow("S2", Acme2, 1, FullPrice),
         MkRow("S3", Bidco1, 1, NearMiss),
         MkRow("S3", Acme2, 1, FullPrice)>>
ScenarioDatasets ==
    {ScenarioDataset(days) : days \in {d \in SUBSET (1..5) : Cardinality(d) = 3}}

PromoDatasets == SeqsUpTo(PromoRows, MaxRows) \cup ScenarioDatasets

(***************************************************************************)
(* PromotionAnalyzer                                                       *)
(***************************************************************************)
\* discount_threshold = 0.10, as a percentage; min_days = 2.
DiscountThresholdPct == 10
MinDays == 2

\* A unit price that is also computed for a quantity of zero.
UnitPriceMutant(r) ==
    IF r.Quantity >= 0 THEN Val(r.Total_Sales, r.Quantity) ELSE NaN
\* _prepare_data: unit_price on every row, then the valid rows only.
UnitPrice(r) ==
    IF r.Quantity > 0 THEN Val(r.Total_Sales, r.Quantity) ELSE NaN
ValidRow(r) ==
    /\ r.Quantity > 0
    /\ r.RRP # Missing
    /\ r.RRP[1] > 0
    /\ IsNum(UnitPrice(r))
WithUnitPrice(r) ==
    [Store |-> r.Store, Item_Code |-> r.Item_Code, Description |-> r.Description,
     Supplier |-> r.Supplier, Date |-> r.Date, Quantity |-> r.Quantity,
     Total_Sales |-> r.Total_Sales, RRP |-> r.RRP, unit_price |-> UnitPrice(r)]
PrepareData(d) ==
    LET priced == [i \in DOMAIN d |-> WithUnitPrice(d[i])]
    IN  SelectSeq(priced, ValidRow)

\* discount_pct = (RRP - unit_price) / RRP * 100 of a prepared row.
DiscountPct(r) ==
    Val((r.RRP[1] * r.unit_price.den - r.unit_price.num) * 100,
        r.RRP[1] * r.unit_price.den)
IsPromoDay(r) == CellGe(DiscountPct(r), Whole(DiscountThresholdPct))

\* groupby([Store Name, Item_Code, is_promo_day]).size().unstack(fill_value=0):
\* one line per (store, item) pair of the table, one column per flag value
\* that occurs in the table.
PromoDaysTable(p) ==
    LET pairs == {<<p[i].Store, p[i].Item_Code>> : i \in DOMAIN p}
        flags == {IsPromoDay(p[i]) : i \in DOMAIN p}
        size(pr, f) == Cardinality({i \in DOMAIN p :
                          /\ <<p[i].Store, p[i].Item_Code>> = pr
                          /\ IsPromoDay(p[i]) = f})
    IN  [pr \in pairs |-> [f \in flags |-> size(pr, f)]]

\* promo_day_count of each pair: the True column, or 0 when there is none.
PromoDayCount(table, pr) ==
    IF TRUE \in DOMAIN table[pr] THEN table[pr][TRUE] ELSE 0

\* A flag that asks for more than min_days promo days.
OnPromotionMutant(isday, count) == isday /\ count > MinDays
\* The final flag: a promo day of a pair with at least min_days promo days.
OnPromotion(isday, count) == isday /\ count >= MinDays

\* A detection that counts, for every row, the promo days of its pair among
\* the rows up to it only.
DetectOnPreparedStreaming(p) ==
    [i \in DOMAIN p |->
       LET r == p[i]
           cnt == Cardinality({j \in 1..i :
                     /\ p[j].Store = r.Store
                     /\ p[j].Item_Code = r.Item_Code
                     /\ IsPromoDay(p[j])})
       IN  [Store |-> r.Store, Item_Code |-> r.Item_Code,
            Description |-> r.Description, Supplier |-> r.Supplier,
            Date |-> r.Date, Quantity |-> r.Quantity,
            Total_Sales |-> r.Total_Sales, RRP |-> r.RRP,
            unit_price |-> r.unit_price,
            discount_pct |-> DiscountPct(r),
            is_promo_day |-> IsPromoDay(r),
            promo_day_count |-> cnt,
            on_promotion |-> OnPromotion(IsPromoDay(r), cnt)]]
\* detect_promotions on the engine's prepared table p: the pair counts are
\* computed over the whole table first, then joined back onto every row.
DetectOnPrepared(p) ==
    LET table == PromoDaysTable(p)
    IN  [i \in DOMAIN p |->
           LET r == p[i]
               cnt == PromoDayCount(table, <<r.Store, r.Item_Code>>)
           IN  [Store |-> r.Store, Item_Code |-> r.Item_Code,
                Description |-> r.Description, Supplier |-> r.Supplier,
                Date |-> r.Date, Quantity |-> r.Quantity,
                Total_Sales |-> r.Total_Sales, RRP |-> r.RRP,
                unit_price |-> r.unit_price,
                discount_pct |-> DiscountPct(r),
                is_promo_day |-> IsPromoDay(r),
                promo_day_count |-> cnt,
                on_promotion |-> OnPromotion(IsPromoDay(r), cnt)]]

\* PromotionAnalyzer(d).detect_promotions()
detect_promotions(d) == DetectOnPrepared(PrepareData(d))

\* Supplier names and filters as characters, for str.contains(case=False).
Chars ==
    [s \in {"BIDCO", "ACME"} |->
        IF s = "BIDCO" THEN <<"B", "I", "D", "C", "O">> ELSE <<"A", "C", "M", "E">>]
Lower(c) ==
    CASE c = "A" -> "a" [] c = "B" -> "b" [] c = "C" -> "c" [] c = "D" -> "d"
      [] c = "E" -> "e" [] c = "I" -> "i" [] c = "M" -> "m" [] c = "O" -> "o"
      [] OTHER -> c
LowerAll(w) == [i \in DOMAIN w |-> Lower(w[i])]
\* No filter (None or the empty string), and three substrings.
NoFilter == <<>>
Filters == {NoFilter, <<"b", "i", "d", "c", "o">>, <<"C">>, <<"M", "e">>}

\* Series.str.contains(filter, case=False, na=False) on one supplier cell.
SupplierContains(supplier, filter) ==
    /\ supplier # NoSupplier
    /\ LET hay == LowerAll(Chars[supplier])
           needle == LowerAll(filter)
       IN  \E k \in 0..(Len(hay) - Len(needle)) :
              SubSeq(hay, k + 1, k + Len(needle)) = needle

\* The rows calculate_kpis works on: the table detect_promotions returned,
\* then the filter.
FilterDetected(dp, filter) ==
    LET keep(r) == SupplierContains(r.Supplier, filter)
    IN  IF filter # NoFilter THEN SelectSeq(dp, keep) ELSE dp
FilteredPromo(d, filter) == FilterDetected(detect_promotions(d), filter)

\* Every SKU identity, in the sorted order groupby gives its groups.
SKUOrder ==
    <<<<"I1", "Soap", "BIDCO">>, <<"I2", "Oil", "ACME">>, <<"I2", "Oil", NoSupplier>>>>
SkuOf(r) == <<r.Item_Code, r.Description, r.Supplier>>

\* groupby([Item_Code, Description, Supplier, on_promotion]): the groups of
\* the rows whose keys are all present; a row without supplier is in none.
AggRows(fp) == {i \in DOMAIN fp : fp[i].Supplier # NoSupplier}

\* One aggregate of one (SKU, side) group, NaN when the group is empty and
\* Absent when no group of the table has that side (pivot_table makes a
\* column per on_promotion value that occurs).
SideCell(fp, sku, side, Agg(_, _)) ==
    LET rows == {i \in AggRows(fp) : SkuOf(fp[i]) = sku /\ fp[i].on_promotion = side}
        sides == {fp[i].on_promotion : i \in AggRows(fp)}
    IN  IF side \notin sides THEN Absent
        ELSE IF rows = {} THEN NaN
        ELSE Whole(Agg(fp, rows))

\* The aggregates of a group: Quantity sum, Total Sales sum, Store Name nunique.
TotalQuantity(fp, rows) == SumOver([i \in DOMAIN fp |-> fp[i].Quantity], rows)
TotalSales(fp, rows) == SumOver([i \in DOMAIN fp |-> fp[i].Total_Sales], rows)
\* A store count that counts rows instead of distinct stores.
StoreCountMutant(fp, rows) == Cardinality(rows)
\* Store Name nunique
StoreCount(fp, rows) == Cardinality({fp[i].Store : i \in rows})

\* quantity_uplift_pct, computed on the pivot before any NaN is filled.
Uplift(base, promo) ==
    IF base.tag # "absent" /\ promo.tag # "absent"
    THEN IF CellGt(base, Whole(0))
         THEN IF IsNum(promo)
              THEN Val((promo.num * base.den - base.num * promo.den) * 100,
                       base.num * promo.den)
              ELSE NaN
         ELSE NaN
    ELSE NaN

\* promo_coverage_pct: store_count_promo / total_stores * 100.
Coverage(storesPromo, totalStores) ==
    IF storesPromo.tag # "absent"
    THEN IF IsNum(storesPromo)
         THEN Val(storesPromo.num * 100, storesPromo.den * totalStores)
         ELSE NaN
    ELSE Whole(0)

\* "Ensure all expected columns exist": a listed column the pivot lacks is
\* added as 0.  total_sales_baseline and total_sales_promo are not listed.
EnsureColumn(c) == IF c.tag = "absent" THEN Whole(0) ELSE c
\* A fill that leaves NaN in place.
FillNaMutant(c) == c
\* fillna(0)
FillNa(c) == IF c.tag = "nan" THEN Whole(0) ELSE c

\* One line of the pivot for a SKU, with the computed columns, as reported.
DetailRow(fp, sku) ==
    LET qb == SideCell(fp, sku, FALSE, TotalQuantity)
        qp == SideCell(fp, sku, TRUE, TotalQuantity)
        sb == SideCell(fp, sku, FALSE, TotalSales)
        sp == SideCell(fp, sku, TRUE, TotalSales)
        cb == SideCell(fp, sku, FALSE, StoreCount)
        cp == SideCell(fp, sku, TRUE, StoreCount)
        total_stores == Cardinality({fp[i].Store : i \in DOMAIN fp})
    IN  [Item_Code |-> sku[1], Description |-> sku[2], Supplier |-> sku[3],
         total_quantity_baseline |-> FillNa(EnsureColumn(qb)),
         total_quantity_promo |-> FillNa(EnsureColumn(qp)),
         total_sales_baseline |-> FillNa(sb),
         total_sales_promo |-> FillNa(sp),
         store_count_baseline |-> FillNa(EnsureColumn(cb)),
         store_count_promo |-> FillNa(EnsureColumn(cp)),
         quantity_uplift_pct |-> FillNa(Uplift(qb, qp)),
         promo_coverage_pct |-> FillNa(Coverage(cp, total_stores))]

\* The pivot has a line per SKU that has a group.
PivotSkus(fp) ==
    LET present(sku) == \E i \in AggRows(fp) : SkuOf(fp[i]) = sku
    IN  SelectSeq(SKUOrder, present)

\* The pivot of an empty aggregate is left out of the model: the operation
\* is modelled on the inputs that give the pivot at least one line.
KpisDefined(d, filter) == PivotSkus(FilteredPromo(d, filter)) # <<>>

\* PromotionAnalyzer(d).calculate_kpis(filter): the summary counts and the
\* detail table.
KpisOfFiltered(fp) ==
    LET skus == PivotSkus(fp)
        detail == [k \in DOMAIN skus |-> DetailRow(fp, skus[k])]
    IN  [summary |->
            [total_skus_analyzed |-> Len(detail),
             skus_with_promos |->
                Cardinality({k \in DOMAIN detail :
                    CellGt(detail[k].promo_coverage_pct, Whole(0))})],
         detailed_data |-> detail]
calculate_kpis(d, filter) == KpisOfFiltered(FilteredPromo(d, filter))

(***************************************************************************)
(* The promotion engine as a state machine: a dataset is loaded; the       *)
(* worker takes a request when it is idle, builds an analyzer on the       *)
(* dataset, runs the operation, and replies.                               *)
(***************************************************************************)
NoCall == [op |-> "none", filter |-> NoFilter]
Idle == call = NoCall

\* The response is sent and the worker is idle again.
Reply ==
    /\ ~Idle
    /\ call' = NoCall
    /\ ret' = <<>>
    /\ UNCHANGED <<df, service>>

InitPromo ==
    /\ df \in PromoDatasets
    /\ call = NoCall
    /\ ret = <<>>
    /\ AtRest

DetectPromotions ==
    /\ Idle
    /\ call' = [op |-> "detect_promotions", filter |-> NoFilter]
    /\ ret' = detect_promotions(df)
    /\ UNCHANGED <<df, service>>

CalculateKpis ==
    \E f \in Filters :
        /\ Idle
        /\ KpisDefined(df, f)
        /\ call' = [op |-> "calculate_kpis", filter |-> f]
        /\ ret' = calculate_kpis(df, f)
        /\ UNCHANGED <<df, service>>

NextPromo == DetectPromotions \/ CalculateKpis \/ Reply

SpecPromo == InitPromo /\ [][NextPromo]_vars

(***************************************************************************)
(* DataQualityChecker                                                      *)
(***************************************************************************)
\* The datasets of the data-quality engine.  Four natural keys (store,
\* item, date), the last three differing from the first in one component,
\* and four kinds of row: clean; a return with negative quantity and sales
\* and no RRP; a row without supplier and RRP; a zero quantity with sales.
KeyA == <<"S1", "I1", 1>>
KeyB == <<"S1", "I1", 2>>
KeyC == <<"S1", "I2", 1>>
KeyD == <<"S2", "I1", 1>>
QualityKeys == {KeyA, KeyB, KeyC, KeyD}
Clean == [Supplier |-> "BIDCO", Quantity |-> 2, Total_Sales |-> 20, RRP |-> Some(10)]
Returned == [Supplier |-> "ACME", Quantity |-> -5, Total_Sales |-> -50, RRP |-> Missing]
Bare == [Supplier |-> NoSupplier, Quantity |-> 3, Total_Sales |-> 27, RRP |-> Missing]
Ghost == [Supplier |-> "BIDCO", Quantity |-> 0, Total_Sales |-> 5, RRP |-> Some(10)]
\* Rows of positive quantity for the price buckets: a unit price above ten
\* times the RRP, one below a hundredth of it, and an RRP of zero.
Dear == [Supplier |-> "BIDCO", Quantity |-> 1, Total_Sales |-> 101, RRP |-> Some(10)]
Cheap == [Supplier |-> "BIDCO", Quantity |-> 20, Total_Sales |-> 1, RRP |-> Some(10)]
Unpriced == [Supplier |-> "BIDCO", Quantity |-> 1, Total_Sales |-> 9, RRP |-> Some(0)]
QualityRow(key, k) == MkRow(key[1], <<key[2], k.Supplier>>, key[3], k)
\* A clean row under every key; every kind of defect under the first key;
\* a return in the other store and a bare row on the other date; the rows
\* for the price buckets under the first key.
QualityRows ==
    {QualityRow(key, Clean) : key \in QualityKeys}
    \cup {QualityRow(KeyA, k) : k \in {Returned, Bare, Ghost}}
    \cup {QualityRow(KeyD, Returned), QualityRow(KeyB, Bare)}
    \cup {QualityRow(KeyA, k) : k \in {Dear, Cheap, Unpriced}}

\* A store of BigStoreRows rows, all of different dates: the first
\* `missing` rows lack the RRP, the last `negative` rows have negative
\* sales.
BigStoreRows == 2000
LargeDataset(missing, negative) ==
    [i \in 1..BigStoreRows |->
        MkRow("S1", Bidco1, i,
              [Quantity |-> 2,
               Total_Sales |-> IF i > BigStoreRows - negative THEN -50 ELSE 20,
               RRP |-> IF i <= missing THEN Missing ELSE Some(10)])]
LargeDatasets == {LargeDataset(1331, 1), LargeDataset(3, 1999)}

QualityDatasets == SeqsUpTo(QualityRows, MaxRows) \cup LargeDatasets

\* The result of an operation: a value, or an exception.
Returns(v) == [raised |-> FALSE, value |-> v]
Raises(e) == [raised |-> TRUE, value |-> e]

\* The order of strings that sorting uses.
StoreOrder == <<"S1", "S2", "S3">>
ItemOrder == <<"I1", "I2">>
Rank(order, x) == CHOOSE i \in DOMAIN order : order[i] = x

\* The elements of S as a sequence, least first under the total order Less.
SortBy(S, Less(_, _)) ==
    [k \in 1..Cardinality(S) |->
        CHOOSE x \in S : Cardinality({y \in S : Less(y, x)}) = k - 1]

\* key_cols = [Store Name, Item_Code, Date Of Sale]
KeyOf(r) == <<r.Store, r.Item_Code, r.Date>>
KeyLess(a, b) ==
    \/ Rank(StoreOrder, a[1]) < Rank(StoreOrder, b[1])
    \/ a[1] = b[1] /\ Rank(ItemOrder, a[2]) < Rank(ItemOrder, b[2])
    \/ a[1] = b[1] /\ a[2] = b[2] /\ a[3] < b[3]

\* The marking that leaves the first row of every key unmarked.
DuplicatedFirstKept(d) ==
    {i \in DOMAIN d : \E j \in 1..(i - 1) : KeyOf(d[j]) = KeyOf(d[i])}
\* df.duplicated(subset=key_cols, keep=False): every row whose key occurs
\* more than once (none when as many keys as rows).
DuplicatedAll(d) ==
    IF Cardinality({KeyOf(d[i]) : i \in DOMAIN d}) = Len(d) THEN {}
    ELSE {i \in DOMAIN d : \E j \in DOMAIN d : j # i /\ KeyOf(d[j]) = KeyOf(d[i])}

\* check_duplicates: the marked rows grouped by key, Quantity and
\* Total Sales summed, in key order; an empty table without duplicates.
check_duplicates(d) ==
    LET dups == DuplicatedAll(d)
        keys == SortBy({KeyOf(d[i]) : i \in dups}, KeyLess)
        members(key) == {i \in dups : KeyOf(d[i]) = key}
    IN  [k \in DOMAIN keys |->
           [Store |-> keys[k][1], Item_Code |-> keys[k][2], Date |-> keys[k][3],
            Quantity |-> SumOver([i \in DOMAIN d |-> d[i].Quantity], members(keys[k])),
            Total_Sales |-> SumOver([i \in DOMAIN d |-> d[i].Total_Sales],
                                    members(keys[k]))]]

\* check_missing_values: the columns with a missing value, in column order,
\* with the count and its percentage of the rows.
check_missing_values(d) ==
    LET nSupplier == Cardinality({i \in DOMAIN d : d[i].Supplier = NoSupplier})
        nRRP == Cardinality({i \in DOMAIN d : d[i].RRP = Missing})
        line(col, n) == [column |-> col, missing_count |-> n,
                         missing_pct |-> Val(n * 100, Len(d))]
    IN  (IF nSupplier > 0 THEN <<line("Supplier", nSupplier)>> ELSE <<>>)
        \o (IF nRRP > 0 THEN <<line("RRP", nRRP)>> ELSE <<>>)

\* check_outliers: the named buckets that are not empty, in the order the
\* code fills them.  The price buckets are taken over the rows of positive
\* quantity whose RRP is not null.
\* A test that passes over a return whose sales are negative as well.
NegativeQuantityMutant(r) == r.Quantity < 0 /\ r.Total_Sales >= 0
\* self.df['Quantity'] < 0
NegativeQuantity(r) == r.Quantity < 0
ZeroQtyWithSales(r) == r.Quantity = 0 /\ r.Total_Sales > 0
NegativeSales(r) == r.Total_Sales < 0
PriceChecked(r) == r.Quantity > 0 /\ r.RRP # Missing
\* unit_price > RRP * 10, and unit_price < RRP * 0.01
ExtremeHigh(r) == PriceChecked(r) /\ r.Total_Sales > r.RRP[1] * 10 * r.Quantity
ExtremeLow(r) == PriceChecked(r) /\ r.Total_Sales * 100 < r.RRP[1] * r.Quantity
OutlierLine(r) ==
    [Store |-> r.Store, Supplier |-> r.Supplier, Description |-> r.Description,
     Quantity |-> r.Quantity, Total_Sales |-> r.Total_Sales, RRP |-> r.RRP,
     Date |-> r.Date]
Bucket(d, name, Test(_)) ==
    LET rows == SelectSeq(d, Test)
    IN  IF Len(rows) > 0
        THEN <<[bucket |-> name, rows |-> [i \in DOMAIN rows |-> OutlierLine(rows[i])]]>>
        ELSE <<>>
check_outliers(d) ==
    Bucket(d, "negative_quantity", NegativeQuantity)
    \o Bucket(d, "zero_qty_with_sales", ZeroQtyWithSales)
    \o Bucket(d, "negative_sales", NegativeSales)
    \o Bucket(d, "extreme_high_price", ExtremeHigh)
    \o Bucket(d, "extreme_low_price", ExtremeLow)

\* The weights of the three terms and the category thresholds.
MissingWeight == 30
OutlierWeight == 40
DuplicateWeight == 30
ExcellentFrom == 90
GoodFrom == 75
FairFrom == 60

\* A term without its floor.
Max0Mutant(x) == x
\* max(0, x)
Max0(x) == IF x > 0 THEN x ELSE 0

\* round(num / den, 2) in hundredths, ties to even.
Round2(num, den) ==
    LET q == (num * 100) \div den
        r == (num * 100) % den
    IN  IF 2 * r > den THEN q + 1
        ELSE IF 2 * r < den THEN q
        ELSE IF q % 2 = 0 THEN q ELSE q + 1
\* round(rate * 100, 2) of a rate defects / records.
RatePct(defects, records) == Val(Round2(defects * 100, records), 100)

\* The category of the unrounded score num / den.
Category(num, den) ==
    IF num >= ExcellentFrom * den THEN "Excellent"
    ELSE IF num >= GoodFrom * den THEN "Good"
    ELSE IF num >= FairFrom * den THEN "Fair"
    ELSE "Poor"

\* A score that weighs the missing data with 40 and the outliers with 30.
ScoreNumeratorSwapped(n, missing2, outliers, dups) ==
    Max0((2 * n - missing2) * OutlierWeight)
    + Max0((n - outliers) * 2 * MissingWeight)
    + Max0((n - dups) * 2 * DuplicateWeight)
\* missing_score + outlier_score + dup_score as a numerator over twice the
\* record count n; `missing2` is the missing rate in units of 1/(2n).
ScoreNumerator(n, missing2, outliers, dups) ==
    Max0((2 * n - missing2) * MissingWeight)
    + Max0((n - outliers) * 2 * OutlierWeight)
    + Max0((n - dups) * 2 * DuplicateWeight)

\* duplicated(subset=key_cols).sum() within a group of rows: the rows after
\* the first of their key.
DupCount(d, rows) == Cardinality(rows) - Cardinality({KeyOf(d[i]) : i \in rows})

\* Values of a column in the order of first appearance (Series.unique()).
FirstIndex(d, Col(_), v) ==
    CHOOSE i \in DOMAIN d : Col(d[i]) = v /\ \A j \in 1..(i - 1) : Col(d[j]) # v
UniqueValues(d, Col(_)) ==
    LET earlier(a, b) == FirstIndex(d, Col, a) < FirstIndex(d, Col, b)
    IN  SortBy({Col(d[i]) : i \in DOMAIN d}, earlier)
StoreCol(r) == r.Store
SupplierCol(r) == r.Supplier

\* sort_values('health_score', ascending=False): by the rounded score,
\* groups of equal score in the order they were scored.
SortByScore(rows) ==
    LET before(a, b) ==
            \/ CellGt(rows[a].health_score, rows[b].health_score)
            \/ rows[a].health_score = rows[b].health_score /\ a < b
        order == SortBy(DOMAIN rows, before)
    IN  [k \in DOMAIN order |-> rows[order[k]]]

\* One line of calculate_store_health_score.
StoreScoreLine(d, store) ==
    LET rows == {i \in DOMAIN d : d[i].Store = store}
        n == Cardinality(rows)
        missing_supplier == Cardinality({i \in rows : d[i].Supplier = NoSupplier})
        missing_rrp == Cardinality({i \in rows : d[i].RRP = Missing})
        neg_qty == Cardinality({i \in rows : d[i].Quantity < 0})
        neg_sales == Cardinality({i \in rows : d[i].Total_Sales < 0})
        dup_count == DupCount(d, rows)
        num == ScoreNumerator(n, missing_supplier + missing_rrp,
                              neg_qty + neg_sales, dup_count)
    IN  [store |-> store, total_records |-> n,
         missing_rate |-> RatePct(missing_supplier + missing_rrp, 2 * n),
         outlier_rate |-> RatePct(neg_qty + neg_sales, n),
         duplicate_rate |-> RatePct(dup_count, n),
         health_score |-> Val(Round2(num, 2 * n), 100),
         category |-> Category(num, 2 * n)]

\* calculate_store_health_score.  With no store there is no line, the
\* frame built from the empty list has no health_score column, and sorting
\* by it raises.
calculate_store_health_score(d) ==
    LET stores == UniqueValues(d, StoreCol)
    IN  IF stores = <<>> THEN Raises("KeyError: health_score")
        ELSE Returns(SortByScore([k \in DOMAIN stores |-> StoreScoreLine(d, stores[k])]))

\* One line of calculate_supplier_health_score.
SupplierScoreLine(d, supplier) ==
    LET rows == {i \in DOMAIN d : d[i].Supplier = supplier}
        n == Cardinality(rows)
        missing_rrp == Cardinality({i \in rows : d[i].RRP = Missing})
        neg_qty == Cardinality({i \in rows : d[i].Quantity < 0})
        neg_sales == Cardinality({i \in rows : d[i].Total_Sales < 0})
        zero_qty_with_sales == Cardinality({i \in rows : ZeroQtyWithSales(d[i])})
        dup_count == DupCount(d, rows)
        num == ScoreNumerator(n, 2 * missing_rrp,
                              neg_qty + neg_sales + zero_qty_with_sales, dup_count)
    IN  [supplier |-> supplier, total_records |-> n,
         missing_rrp_rate |-> RatePct(missing_rrp, n),
         outlier_rate |-> RatePct(neg_qty + neg_sales + zero_qty_with_sales, n),
         duplicate_rate |-> RatePct(dup_count, n),
         health_score |-> Val(Round2(num, 2 * n), 100),
         category |-> Category(num, 2 * n)]

\* calculate_supplier_health_score, over the suppliers that are not null.
calculate_supplier_health_score(d) ==
    LET named == SelectSeq(UniqueValues(d, SupplierCol), LAMBDA v : v # NoSupplier)
    IN  IF named = <<>> THEN Raises("KeyError: health_score")
        ELSE Returns(SortByScore([k \in DOMAIN named |-> SupplierScoreLine(d, named[k])]))

\* _identify_key_issues: one entry per missing critical column, one for
\* the duplicates, one per outlier bucket, one for the stores and one for
\* the suppliers whose reported score is below 60.
PoorLines(health) ==
    Cardinality({k \in DOMAIN health : CellLt(health[k].health_score, Whole(FairFrom))})
identify_key_issues(missing, duplicates, outliers, store_health, supplier_health) ==
    [k \in DOMAIN missing |->
        [issue |-> missing[k].column, count |-> missing[k].missing_count]]
    \o (IF Len(duplicates) > 0
        THEN <<[issue |-> "duplicates", count |-> Len(duplicates)]>> ELSE <<>>)
    \o [k \in DOMAIN outliers |->
          [issue |-> outliers[k].bucket, count |-> Len(outliers[k].rows)]]
    \o (IF PoorLines(store_health) > 0
        THEN <<[issue |-> "poor_stores", count |-> PoorLines(store_health)]>> ELSE <<>>)
    \o (IF PoorLines(supplier_health) > 0
        THEN <<[issue |-> "poor_suppliers", count |-> PoorLines(supplier_health)]>>
        ELSE <<>>)

FirstRows(t, n) == SubSeq(t, 1, IF Len(t) < n THEN Len(t) ELSE n)
LastRows(t, n) == SubSeq(t, IF Len(t) < n THEN 1 ELSE Len(t) - n + 1, Len(t))

\* generate_summary_report: the five checks, then the report; an exception
\* of a check is the exception of the report.
generate_summary_report(d) ==
    LET missing == check_missing_values(d)
        duplicates == check_duplicates(d)
        outliers == check_outliers(d)
        store_health == calculate_store_health_score(d)
        supplier_health == calculate_supplier_health_score(d)
    IN  IF store_health.raised THEN store_health
        ELSE IF supplier_health.raised THEN supplier_health
        ELSE Returns(
            [dataset_overview |->
                [total_records |-> Len(d),
                 first_date |-> CHOOSE x \in {d[i].Date : i \in DOMAIN d} :
                                   \A y \in {d[i].Date : i \in DOMAIN d} : x <= y,
                 last_date |-> CHOOSE x \in {d[i].Date : i \in DOMAIN d} :
                                  \A y \in {d[i].Date : i \in DOMAIN d} : x >= y,
                 num_stores |-> Cardinality({d[i].Store : i \in DOMAIN d}),
                 num_suppliers |-> Cardinality({d[i].Supplier : i \in DOMAIN d}
                                                \ {NoSupplier}),
                 num_skus |-> Cardinality({d[i].Item_Code : i \in DOMAIN d})],
             missing_values |-> missing,
             duplicates_count |-> Len(duplicates),
             outliers_summary |->
                [k \in DOMAIN outliers |-> <<outliers[k].bucket, Len(outliers[k].rows)>>],
             store_health_top_10 |-> FirstRows(store_health.value, 10),
             store_health_bottom_10 |-> LastRows(store_health.value, 10),
             supplier_health_top_10 |-> FirstRows(supplier_health.value, 10),
             supplier_health_bottom_10 |-> LastRows(supplier_health.value, 10),
             key_issues |-> identify_key_issues(missing, duplicates, outliers,
                                store_health.value, supplier_health.value)])

(***************************************************************************)
(* The data-quality engine as a state machine: a dataset is loaded, and    *)
(* each request builds a checker on it, runs one operation and replies.    *)
(***************************************************************************)
InitQuality ==
    /\ df \in QualityDatasets
    /\ call = NoCall
    /\ ret = <<>>
    /\ AtRest

Request(op, result) ==
    /\ Idle
    /\ call' = [op |-> op, filter |-> NoFilter]
    /\ ret' = result
    /\ UNCHANGED <<df, service>>

CheckDuplicates == Request("check_duplicates", Returns(check_duplicates(df)))
CheckOutliers == Request("check_outliers", Returns(check_outliers(df)))
CalculateStoreHealthScore ==
    Request("calculate_store_health_score", calculate_store_health_score(df))
CalculateSupplierHealthScore ==
    Request("calculate_supplier_health_score", calculate_supplier_health_score(df))
GenerateSummaryReport ==
    Request("generate_summary_report", generate_summary_report(df))

NextQuality ==
    \/ CheckDuplicates
    \/ CheckOutliers
    \/ CalculateStoreHealthScore
    \/ CalculateSupplierHealthScore
    \/ GenerateSummaryReport
    \/ Reply

SpecQuality == InitQuality /\ [][NextQuality]_vars

\* Both engines on the datasets of both.
Init ==
    /\ df \in PromoDatasets \cup QualityDatasets
    /\ call = NoCall
    /\ ret = <<>>
    /\ AtRest
Next ==
    \/ DetectPromotions
    \/ CalculateKpis
    \/ CheckDuplicates
    \/ CheckOutliers
    \/ CalculateStoreHealthScore
    \/ CalculateSupplierHealthScore
    \/ GenerateSummaryReport
    \/ Reply
Spec == Init /\ [][Next]_vars

(***************************************************************************)
(* The claims about the promotion engine, stated on the source dataset df  *)
(* and the returned value ret, in the claims' own terms.                   *)
(***************************************************************************)
\* A valid row of the source: quantity > 0, RRP present and > 0.
ClaimValid(r) == r.Quantity > 0 /\ r.RRP # Missing /\ r.RRP[1] > 0
\* discount_pct >= 10 for unit price Total_Sales / Quantity, cross-multiplied.
ClaimDiscountDay(r) ==
    (r.RRP[1] * r.Quantity - r.Total_Sales) * 100
        >= DiscountThresholdPct * r.RRP[1] * r.Quantity
ValidIdx(d) == {j \in DOMAIN d : ClaimValid(d[j])}
\* Where the valid source row j stands in a result of detect_promotions.
ResultPos(d, j) == Cardinality({k \in ValidIdx(d) : k <= j})
\* The discount-day rows of the (store, item) pair over the valid dataset.
PairDiscountDays(d, store, item) ==
    {j \in ValidIdx(d) :
        d[j].Store = store /\ d[j].Item_Code = item /\ ClaimDiscountDay(d[j])}
ClaimOnPromotion(d, j) ==
    /\ ClaimDiscountDay(d[j])
    /\ Cardinality(PairDiscountDays(d, d[j].Store, d[j].Item_Code)) >= MinDays
\* The valid rows calculate_kpis analyses under a supplier filter.
ClaimFiltered(d, filter) ==
    {j \in ValidIdx(d) :
        filter = NoFilter \/ SupplierContains(d[j].Supplier, filter)}
ClaimSku(r) == <<r.Item_Code, r.Description, r.Supplier>>
ClaimSkus(d, filter) == {ClaimSku(d[j]) : j \in ClaimFiltered(d, filter)}
\* The rows of a SKU in the filtered valid set, on one side of the split.
ClaimSide(d, filter, sku, promo) ==
    {j \in ClaimFiltered(d, filter) :
        ClaimSku(d[j]) = sku /\ ClaimOnPromotion(d, j) = promo}
ClaimQty(d, rows) == SumOver([j \in DOMAIN d |-> d[j].Quantity], rows)
ClaimStores(d, rows) == {d[j].Store : j \in rows}
DetailSku(row) == <<row.Item_Code, row.Description, row.Supplier>>

\* C1: detect_promotions returns the valid rows; on each, promo_day_count is
\* the number of discount-day rows of the row's (store, item) pair over the
\* whole valid dataset, and on_promotion holds iff the row is a discount-day
\* and that count is >= min_days.
C1_OnPromotionRule ==
    call.op = "detect_promotions" =>
        /\ Len(ret) = Cardinality(ValidIdx(df))
        /\ \A j \in ValidIdx(df) :
              LET r == ret[ResultPos(df, j)]
                  n == Cardinality(PairDiscountDays(df, df[j].Store, df[j].Item_Code))
              IN  /\ r.Store = df[j].Store /\ r.Item_Code = df[j].Item_Code
                  /\ r.promo_day_count = n
                  /\ r.on_promotion <=> (ClaimDiscountDay(df[j]) /\ n >= MinDays)
\* A qualifying pair with a promoted row and a baseline (non-discount) row.
C1_Witness ==
    /\ call.op = "detect_promotions"
    /\ \E i, j \in DOMAIN ret :
          /\ ret[i].Store = ret[j].Store /\ ret[i].Item_Code = ret[j].Item_Code
          /\ ret[i].on_promotion
          /\ ~ret[j].is_promo_day /\ ~ret[j].on_promotion
          /\ ret[j].promo_day_count >= MinDays

Swap(d, i, j) == [d EXCEPT ![i] = d[j], ![j] = d[i]]
SwapIdx(i, j, k) == IF k = i THEN j ELSE IF k = j THEN i ELSE k
RowFlags(r) == <<r.is_promo_day, r.promo_day_count, r.on_promotion>>
KpiView(k) ==
    <<k.summary,
      [n \in DOMAIN k.detailed_data |->
         LET row == k.detailed_data[n]
         IN  <<DetailSku(row), row.total_quantity_baseline, row.total_quantity_promo,
               row.store_count_baseline, row.store_count_promo,
               row.quantity_uplift_pct, row.promo_coverage_pct>>]>>

\* C2: exchanging any two rows of the dataset (every permutation is a chain
\* of exchanges, and every exchanged dataset is itself a dataset of the
\* model) leaves each row's is_promo_day, promo_day_count and on_promotion
\* and the KPIs (per-SKU quantities, store counts, uplift, coverage, summary
\* counts) as returned.
C2_OrderIndependent ==
    \A i, j \in DOMAIN df :
        i < j =>
            LET d2 == Swap(df, i, j)
            IN  /\ call.op = "detect_promotions" =>
                      LET r2 == detect_promotions(d2)
                      IN  /\ Len(r2) = Len(ret)
                          /\ \A k \in ValidIdx(df) :
                                RowFlags(ret[ResultPos(df, k)])
                                    = RowFlags(r2[ResultPos(d2, SwapIdx(i, j, k))])
                /\ call.op = "calculate_kpis" =>
                      /\ KpisDefined(d2, call.filter)
                      /\ KpiView(calculate_kpis(d2, call.filter)) = KpiView(ret)
\* Promoted rows were returned for a dataset whose rows are not all alike
\* and in which a discount-day precedes a baseline row of the same pair.
C2_Witness ==
    /\ call.op = "detect_promotions"
    /\ \E i, j \in DOMAIN ret :
          /\ i < j
          /\ ret[i].Store = ret[j].Store /\ ret[i].Item_Code = ret[j].Item_Code
          /\ ret[i].on_promotion /\ ~ret[j].is_promo_day
    /\ \E i, j \in DOMAIN ret : ret[i].on_promotion /\ ret[j].on_promotion /\ i # j

\* C3 (as claimed): skus_with_promos counts exactly the SKUs (item_code,
\* description, supplier) with a promoted row in the filtered valid set.
C3_SkusWithPromos ==
    call.op = "calculate_kpis" =>
        ret.summary.skus_with_promos =
            Cardinality({sku \in ClaimSkus(df, call.filter) :
                            ClaimSide(df, call.filter, sku, TRUE) # {}})

\* C4: a SKU of detailed_data with no baseline row (baseline quantity 0 or
\* missing) has quantity_uplift_pct exactly 0, a number.
C4_UpliftZeroWithoutBaseline ==
    call.op = "calculate_kpis" =>
        \A n \in DOMAIN ret.detailed_data :
            LET row == ret.detailed_data[n]
            IN  ClaimSide(df, call.filter, DetailSku(row), FALSE) = {} =>
                    /\ row.quantity_uplift_pct = Whole(0)
                    /\ row.total_quantity_baseline = Whole(0)
\* A promo-only SKU is reported, once beside a SKU that has a baseline (its
\* own baseline cell is NaN) and once when no SKU has one (no such column).
C4_Witness ==
    /\ call.op = "calculate_kpis"
    /\ \E n \in DOMAIN ret.detailed_data :
          LET row == ret.detailed_data[n]
          IN  /\ ClaimSide(df, call.filter, DetailSku(row), FALSE) = {}
              /\ row.total_quantity_promo.num > 0
    /\ \E n \in DOMAIN ret.detailed_data :
          ClaimSide(df, call.filter, DetailSku(ret.detailed_data[n]), FALSE) # {}

\* C5: promo_coverage_pct of every SKU of detailed_data is
\* (stores with a promoted row of the SKU) / (stores of the filtered valid
\* set) * 100, within [0, 100], and 0 for a SKU with no promoted row.
C5_Coverage ==
    call.op = "calculate_kpis" =>
        \A n \in DOMAIN ret.detailed_data :
            LET row == ret.detailed_data[n]
                promo == ClaimSide(df, call.filter, DetailSku(row), TRUE)
                total == ClaimStores(df, ClaimFiltered(df, call.filter))
                c == row.promo_coverage_pct
            IN  /\ CellEq(c, Val(Cardinality(ClaimStores(df, promo)) * 100,
                                 Cardinality(total)))
                /\ CellGe(c, Whole(0)) /\ CellGe(Whole(100), c)
                /\ promo = {} => c = Whole(0)
\* A SKU promoted in some but not all stores, by several rows in one store.
C5_Witness ==
    /\ call.op = "calculate_kpis"
    /\ \E n \in DOMAIN ret.detailed_data :
          LET row == ret.detailed_data[n]
              promo == ClaimSide(df, call.filter, DetailSku(row), TRUE)
          IN  /\ CellGt(row.promo_coverage_pct, Whole(0))
              /\ CellLt(row.promo_coverage_pct, Whole(100))
              /\ Cardinality(promo) > Cardinality(ClaimStores(df, promo))

\* C6 (as claimed): every SKU group of the filtered valid set, a group with
\* a null supplier included, is exactly one line of detailed_data, and the
\* side it lacks shows quantity, sales and store count 0.
C6_EveryGroupOnce ==
    call.op = "calculate_kpis" =>
        \A sku \in ClaimSkus(df, call.filter) :
            /\ Cardinality({n \in DOMAIN ret.detailed_data :
                               DetailSku(ret.detailed_data[n]) = sku}) = 1
            /\ \A n \in DOMAIN ret.detailed_data :
                  LET row == ret.detailed_data[n]
                  IN  DetailSku(row) = sku =>
                        /\ ClaimSide(df, call.filter, sku, FALSE) = {} =>
                              /\ row.total_quantity_baseline = Whole(0)
                              /\ row.total_sales_baseline = Whole(0)
                              /\ row.store_count_baseline = Whole(0)
                        /\ ClaimSide(df, call.filter, sku, TRUE) = {} =>
                              /\ row.total_quantity_promo = Whole(0)
                              /\ row.total_sales_promo = Whole(0)
                              /\ row.store_count_promo = Whole(0)

\* C7 (as claimed): with baseline quantity > 0, quantity_uplift_pct is
\* (promo_qty - baseline_qty) / baseline_qty * 100, promo_qty being 0 for a
\* SKU without promo rows.
C7_UpliftFormula ==
    call.op = "calculate_kpis" =>
        \A n \in DOMAIN ret.detailed_data :
            LET row == ret.detailed_data[n]
                base == ClaimQty(df, ClaimSide(df, call.filter, DetailSku(row), FALSE))
                promo == ClaimQty(df, ClaimSide(df, call.filter, DetailSku(row), TRUE))
            IN  base > 0 =>
                    CellEq(row.quantity_uplift_pct, Val((promo - base) * 100, base))

(***************************************************************************)
(* Data-quality claims, checked under SpecQuality.                         *)
(***************************************************************************)
HealthOps == {"calculate_store_health_score", "calculate_supplier_health_score"}
HealthReturned == call.op \in HealthOps /\ ~ret.raised
ClaimKeys(d) == {<<d[i].Store, d[i].Item_Code, d[i].Date>> : i \in DOMAIN d}
ClaimMembers(d, key) ==
    {i \in DOMAIN d : <<d[i].Store, d[i].Item_Code, d[i].Date>> = key}
ClusterKey(line) == <<line.Store, line.Item_Code, line.Date>>

\* C8: every line returned by calculate_store_health_score and by
\* calculate_supplier_health_score has a health_score between 0 and 100,
\* also when the outlier rate of the group exceeds 1.
C8_HealthScoreRange ==
    HealthReturned =>
        \A k \in DOMAIN ret.value :
            /\ CellGe(ret.value[k].health_score, Whole(0))
            /\ CellGe(Whole(100), ret.value[k].health_score)

\* A health line of a group whose outlier rate exceeds 100%.
C8_Witness ==
    /\ HealthReturned
    /\ \E k \in DOMAIN ret.value :
          /\ CellGt(ret.value[k].outlier_rate, Whole(100))
          /\ CellGe(ret.value[k].health_score, Whole(0))

\* C9: the category of every health line is the one the thresholds 90, 75
\* and 60 give for the reported health_score, and the number of stores the
\* report's key issues count with a score below 60 is the number of store
\* lines of category Poor.
C9_CategoryOfReportedScore ==
    /\ HealthReturned =>
          \A k \in DOMAIN ret.value :
              ret.value[k].category
                  = Category(ret.value[k].health_score.num, ret.value[k].health_score.den)
    /\ (call.op = "generate_summary_report" /\ ~ret.raised) =>
          LET stores == ret.value.store_health_top_10
              issues == ret.value.key_issues
              poor == Cardinality({k \in DOMAIN stores : stores[k].category = "Poor"})
              counted == {issues[k].count : k \in {j \in DOMAIN issues :
                                                      issues[j].issue = "poor_stores"}}
          IN  IF poor = 0 THEN counted = {} ELSE counted = {poor}

\* C10: check_duplicates returns exactly one cluster for every key that two
\* or more rows share, with the Quantity and Total Sales summed over all the
\* rows of the key, no cluster for a key of a single row, and nothing when
\* no key repeats.
C10_DuplicateClusters ==
    (call.op = "check_duplicates") =>
        IF Cardinality(ClaimKeys(df)) = Len(df) THEN Len(ret.value) = 0
        ELSE /\ \A k \in DOMAIN ret.value : ClusterKey(ret.value[k]) \in ClaimKeys(df)
             /\ \A key \in ClaimKeys(df) :
                   LET lines == {k \in DOMAIN ret.value : ClusterKey(ret.value[k]) = key}
                       rows == ClaimMembers(df, key)
                   IN  IF Cardinality(rows) >= 2
                       THEN /\ Cardinality(lines) = 1
                            /\ \A k \in lines :
                                  /\ ret.value[k].Quantity
                                       = SumOver([i \in DOMAIN df |-> df[i].Quantity], rows)
                                  /\ ret.value[k].Total_Sales
                                       = SumOver([i \in DOMAIN df |-> df[i].Total_Sales], rows)
                       ELSE lines = {}

\* A cluster of two rows returned next to a key of a single row.
C10_Witness ==
    /\ call.op = "check_duplicates"
    /\ Len(ret.value) = 1
    /\ \E key \in ClaimKeys(df) : Cardinality(ClaimMembers(df, key)) = 2
    /\ \E key \in ClaimKeys(df) : Cardinality(ClaimMembers(df, key)) = 1

\* The rows of d that repeat the natural key of an earlier row of d.
ClaimLaterOccurrences(d) ==
    {i \in DOMAIN d : \E j \in 1..(i - 1) :
        <<d[j].Store, d[j].Item_Code, d[j].Date>> = <<d[i].Store, d[i].Item_Code, d[i].Date>>}
ClaimRate(defects, records) == Val(Round2(defects * 100, records), 100)

\* C11 (as claimed): the duplicate_rate of every store line and of every
\* supplier line is the share of the group's rows that repeat the natural
\* key of an earlier row of the dataset, whatever the supplier of that
\* earlier row.
C11_DuplicateRate ==
    /\ (call.op = "calculate_store_health_score" /\ ~ret.raised) =>
          \A k \in DOMAIN ret.value :
              LET rows == {i \in DOMAIN df : df[i].Store = ret.value[k].store}
              IN  ret.value[k].duplicate_rate
                    = ClaimRate(Cardinality(rows \cap ClaimLaterOccurrences(df)),
                                Cardinality(rows))
    /\ (call.op = "calculate_supplier_health_score" /\ ~ret.raised) =>
          \A k \in DOMAIN ret.value :
              LET rows == {i \in DOMAIN df : df[i].Supplier = ret.value[k].supplier}
              IN  ret.value[k].duplicate_rate
                    = ClaimRate(Cardinality(rows \cap ClaimLaterOccurrences(df)),
                                Cardinality(rows))

ClaimBucket(name) == {k \in DOMAIN ret.value : ret.value[k].bucket = name}
ClaimNegQty(d) == {i \in DOMAIN d : d[i].Quantity < 0}
ClaimNegSales(d) == {i \in DOMAIN d : d[i].Total_Sales < 0}
ClaimStoreRows(d, store) == {i \in DOMAIN d : d[i].Store = store}
ClaimStoreLine(health, store) ==
    health[CHOOSE k \in DOMAIN health : health[k].store = store]

\* C12: every row of negative quantity is in the negative_quantity bucket
\* of check_outliers; the outlier rate of a store line is (rows of negative
\* quantity + rows of negative sales) / rows of the store, and it is one
\* row's share, 1 / rows of the store, above the rate the same store gets
\* with that row's quantity made non-negative.
C12_NegativeQuantity ==
    /\ call.op = "check_outliers" =>
          /\ Cardinality(ClaimBucket("negative_quantity"))
                = (IF ClaimNegQty(df) = {} THEN 0 ELSE 1)
          /\ \A b \in ClaimBucket("negative_quantity") :
                LET rows == ret.value[b].rows
                IN  /\ Len(rows) = Cardinality(ClaimNegQty(df))
                    /\ \A i \in ClaimNegQty(df) : \E k \in DOMAIN rows :
                          /\ rows[k].Store = df[i].Store
                          /\ rows[k].Supplier = df[i].Supplier
                          /\ rows[k].Quantity = df[i].Quantity
                          /\ rows[k].Date = df[i].Date
    /\ (call.op = "calculate_store_health_score" /\ ~ret.raised) =>
          /\ \A k \in DOMAIN ret.value :
                LET rows == ClaimStoreRows(df, ret.value[k].store)
                IN  ret.value[k].outlier_rate
                      = ClaimRate(Cardinality(rows \cap ClaimNegQty(df))
                                  + Cardinality(rows \cap ClaimNegSales(df)),
                                  Cardinality(rows))
          /\ \A i \in ClaimNegQty(df) :
                LET rows == ClaimStoreRows(df, df[i].Store)
                    flags == Cardinality(rows \cap ClaimNegQty(df))
                             + Cardinality(rows \cap ClaimNegSales(df))
                    mended == calculate_store_health_score([df EXCEPT ![i].Quantity = 2])
                IN  /\ ClaimStoreLine(ret.value, df[i].Store).outlier_rate
                          = ClaimRate(flags, Cardinality(rows))
                    /\ ClaimStoreLine(mended.value, df[i].Store).outlier_rate
                          = ClaimRate(flags - 1, Cardinality(rows))

\* A row of quantity -5 in the negative_quantity bucket, next to a row of
\* the same store that is not negative.
C12_Witness ==
    /\ call.op = "check_outliers"
    /\ \E b \in ClaimBucket("negative_quantity") :
          \E k \in DOMAIN ret.value[b].rows : ret.value[b].rows[k].Quantity = -5
    /\ \E i, j \in DOMAIN df :
          df[i].Quantity = -5 /\ df[j].Quantity >= 0 /\ df[i].Store = df[j].Store

ClaimPriced(r) == r.Quantity > 0 /\ r.RRP # Missing /\ r.RRP[1] > 0
\* unit_price > 10 * RRP and unit_price < 0.01 * RRP, unit_price being
\* Total Sales / Quantity of a row of positive quantity.
ClaimTooHigh(r) == ClaimPriced(r) /\ r.Total_Sales > 10 * r.RRP[1] * r.Quantity
ClaimTooLow(r) == ClaimPriced(r) /\ 100 * r.Total_Sales < r.RRP[1] * r.Quantity
ClaimBucketIs(name, idx) ==
    /\ Cardinality(ClaimBucket(name)) = (IF idx = {} THEN 0 ELSE 1)
    /\ \A b \in ClaimBucket(name) :
          LET rows == ret.value[b].rows
          IN  /\ Len(rows) = Cardinality(idx)
              /\ \A k \in DOMAIN rows : \E i \in idx :
                    /\ rows[k].Store = df[i].Store
                    /\ rows[k].Supplier = df[i].Supplier
                    /\ rows[k].Quantity = df[i].Quantity
                    /\ rows[k].Total_Sales = df[i].Total_Sales
                    /\ rows[k].RRP = df[i].RRP

\* C13 (as claimed): the extreme_high_price bucket of check_outliers holds
\* exactly the rows of positive quantity and valid RRP (present and > 0)
\* whose unit price is above 10 * RRP, the extreme_low_price bucket exactly
\* those whose unit price is below 0.01 * RRP; a row whose RRP is missing,
\* zero or negative is in neither.
C13_ExtremePriceBuckets ==
    call.op = "check_outliers" =>
        /\ ClaimBucketIs("extreme_high_price", {i \in DOMAIN df : ClaimTooHigh(df[i])})
        /\ ClaimBucketIs("extreme_low_price", {i \in DOMAIN df : ClaimTooLow(df[i])})

(***************************************************************************)
(* PricingIndexAnalyzer                                                    *)
(***************************************************************************)
\* Arithmetic of float cells; an operation on NaN gives NaN.
RECURSIVE GCD(_, _)
GCD(a, b) == IF b = 0 THEN a ELSE GCD(b, a % b)
Abs(n) == IF n < 0 THEN -n ELSE n
\* The cell of n / d for d # 0, in lowest terms with a positive denominator.
Frac(n, d) ==
    LET g == GCD(Abs(n), Abs(d))
    IN  IF d > 0 THEN Val(n \div g, d \div g) ELSE Val((-n) \div g, (-d) \div g)
CellAdd(a, b) ==
    IF IsNum(a) /\ IsNum(b) THEN Frac(a.num * b.den + b.num * a.den, a.den * b.den)
    ELSE NaN
CellSub(a, b) ==
    IF IsNum(a) /\ IsNum(b) THEN Frac(a.num * b.den - b.num * a.den, a.den * b.den)
    ELSE NaN
\* a / b * 100 for b # 0
CellPctOf(a, b) ==
    IF IsNum(a) /\ IsNum(b) THEN Frac(a.num * b.den * 100, a.den * b.num) ELSE NaN

RECURSIVE CellSum(_, _)
\* The sum of the cells f[i] over the indices i of S.
CellSum(f, S) ==
    IF S = {} THEN Whole(0)
    ELSE LET i == CHOOSE j \in S : TRUE
         IN  CellAdd(f[i], CellSum(f, S \ {i}))
\* agg 'mean': the mean of the cells that are numbers, NaN when there is none.
CellMean(f, S) ==
    LET counted == {i \in S : IsNum(f[i])}
        total == CellSum(f, counted)
    IN  IF counted = {} THEN NaN
        ELSE Frac(total.num, total.den * Cardinality(counted))

\* The datasets of the pricing engine: rows that also carry Sub-Department
\* and Section.  A category is a (Sub-Department, Section) pair.
Detergents == <<"HOME", "DETERGENT">>
Oils == <<"FOOD", "OIL">>
Pricey == [Quantity |-> 1, Total_Sales |-> 12, RRP |-> Some(10)]
Refund == [Quantity |-> 1, Total_Sales |-> -5, RRP |-> Some(10)]
MkPricedRow(store, category, supplier, k) ==
    [Store |-> store, Item_Code |-> "I1", Description |-> "Soap",
     Sub_Department |-> category[1], Section |-> category[2],
     Supplier |-> supplier, Date |-> 1,
     Quantity |-> k.Quantity, Total_Sales |-> k.Total_Sales, RRP |-> k.RRP]
\* In store S1, detergents: BIDCO at unit prices 10 and 9, with a zero
\* quantity and with an RRP of zero; ACME at 10, at 9 without RRP and at
\* -5; OMO at 12; a row without supplier.  In store S2, detergents: BIDCO
\* and ACME at 10.  In store S1, oils: BIDCO alone.
PricingRows ==
    {MkPricedRow("S1", Detergents, "BIDCO", k) :
        k \in {FullPrice, Discounted, ZeroQty, ZeroRRP}}
    \cup {MkPricedRow("S1", Detergents, "ACME", k) : k \in {FullPrice, NoRRP, Refund}}
    \cup {MkPricedRow("S1", Detergents, "OMO", Pricey),
          MkPricedRow("S1", Detergents, NoSupplier, FullPrice),
          MkPricedRow("S2", Detergents, "BIDCO", FullPrice),
          MkPricedRow("S2", Detergents, "ACME", FullPrice),
          MkPricedRow("S1", Oils, "BIDCO", FullPrice)}
\* A market of two competitors with different numbers of rows, next to a
\* BIDCO row of kind k, a second store, a category in which BIDCO and its
\* only competitor sell at the same price, and one in which BIDCO is alone.
PricingScenario(k) ==
    <<MkPricedRow("S1", Detergents, "BIDCO", k),
      MkPricedRow("S1", Detergents, "ACME", FullPrice),
      MkPricedRow("S1", Detergents, "ACME", NoRRP),
      MkPricedRow("S1", Detergents, "OMO", Pricey),
      MkPricedRow("S2", Detergents, "BIDCO", Discounted),
      MkPricedRow("S2", Detergents, "ACME", FullPrice),
      MkPricedRow("S1", Oils, "BIDCO", FullPrice),
      MkPricedRow("S1", Oils, "ACME", FullPrice),
      MkPricedRow("S2", Oils, "BIDCO", FullPrice)>>
PricingScenarios == {PricingScenario(k) : k \in {FullPrice, Discounted, Pricey, NoRRP}}
PricingDatasets == SeqsUpTo(PricingRows, MaxRows) \cup PricingScenarios

\* _prepare_data of the pricing engine: unit_price and discount_from_rrp_pct
\* on every row, then the rows of positive quantity with a unit price and a
\* supplier.
DiscountFromRRP(r) ==
    IF r.RRP # Missing /\ r.RRP[1] > 0
    THEN CellPctOf(CellSub(Whole(r.RRP[1]), UnitPrice(r)), Whole(r.RRP[1]))
    ELSE NaN
PricingColumns(r) ==
    [Store |-> r.Store, Item_Code |-> r.Item_Code, Description |-> r.Description,
     Sub_Department |-> r.Sub_Department, Section |-> r.Section,
     Supplier |-> r.Supplier, Date |-> r.Date, Quantity |-> r.Quantity,
     Total_Sales |-> r.Total_Sales, RRP |-> r.RRP,
     unit_price |-> UnitPrice(r), discount_from_rrp_pct |-> DiscountFromRRP(r)]
PricingValidRow(r) ==
    r.Quantity > 0 /\ IsNum(r.unit_price) /\ r.Supplier # NoSupplier
PricingPrepareData(d) ==
    SelectSeq([i \in DOMAIN d |-> PricingColumns(d[i])], PricingValidRow)

\* The thresholds of _categorize_positioning.
PremiumFrom == 110
SlightPremiumFrom == 105
AtMarketFrom == 95
SlightDiscountFrom == 90
\* A categorisation whose bounds are exclusive.
categorize_positioning_exclusive(price_index) ==
    IF ~IsNum(price_index) THEN "No Competition"
    ELSE IF CellGt(price_index, Whole(PremiumFrom)) THEN "Premium"
    ELSE IF CellGt(price_index, Whole(SlightPremiumFrom)) THEN "Slight Premium"
    ELSE IF CellGt(price_index, Whole(AtMarketFrom)) THEN "At Market"
    ELSE IF CellGt(price_index, Whole(SlightDiscountFrom)) THEN "Slight Discount"
    ELSE "Discount"
\* _categorize_positioning
categorize_positioning(price_index) ==
    IF ~IsNum(price_index) THEN "No Competition"
    ELSE IF CellGe(price_index, Whole(PremiumFrom)) THEN "Premium"
    ELSE IF CellGe(price_index, Whole(SlightPremiumFrom)) THEN "Slight Premium"
    ELSE IF CellGe(price_index, Whole(AtMarketFrom)) THEN "At Market"
    ELSE IF CellGe(price_index, Whole(SlightDiscountFrom)) THEN "Slight Discount"
    ELSE "Discount"

\* The order in which groupby returns the categories and the stores.
CategoryOrder == <<Oils, Detergents>>
StoreCategoryLess(a, b) ==
    \/ Rank(StoreOrder, a[1]) < Rank(StoreOrder, b[1])
    \/ a[1] = b[1] /\ Rank(CategoryOrder, a[2]) < Rank(CategoryOrder, b[2])
CategoryOf(r) == <<r.Sub_Department, r.Section>>
RRPCell(r) == IF r.RRP = Missing THEN NaN ELSE Whole(r.RRP[1])

\* store_category_prices: the line of one (store, category, supplier) group
\* of the engine's table p.
GroupRows(p, store, category, supplier) ==
    {i \in DOMAIN p : /\ p[i].Store = store
                      /\ CategoryOf(p[i]) = category
                      /\ p[i].Supplier = supplier}
StoreCategoryPrice(p, store, category, supplier) ==
    LET rows == GroupRows(p, store, category, supplier)
    IN  [avg_unit_price |-> CellMean([i \in DOMAIN p |-> p[i].unit_price], rows),
         avg_rrp |-> CellMean([i \in DOMAIN p |-> RRPCell(p[i])], rows),
         total_quantity |-> SumOver([i \in DOMAIN p |-> p[i].Quantity], rows),
         total_sales |-> SumOver([i \in DOMAIN p |-> p[i].Total_Sales], rows),
         avg_discount_from_rrp |->
             CellMean([i \in DOMAIN p |-> p[i].discount_from_rrp_pct], rows)]

\* A market average that counts the target supplier among the suppliers.
MarketSuppliersWithTarget(p, target, store, category) ==
    {p[i].Supplier : i \in {j \in DOMAIN p : p[j].Store = store
                                             /\ CategoryOf(p[j]) = category}}
\* The suppliers of market_avg in a store and category: all but the target.
MarketSuppliers(p, target, store, category) ==
    {p[i].Supplier : i \in {j \in DOMAIN p : p[j].Store = store
                                             /\ CategoryOf(p[j]) = category}}
        \ {target}
\* market_avg joined to a target line (left join): the means over the
\* per-supplier lines of the competitors, NaN without competitor.
MarketAvg(p, target, store, category) ==
    LET others == MarketSuppliers(p, target, store, category)
        line == [s \in others |-> StoreCategoryPrice(p, store, category, s)]
    IN  IF others = {}
        THEN [market_avg_unit_price |-> NaN, market_avg_rrp |-> NaN,
              market_total_quantity |-> NaN]
        ELSE [market_avg_unit_price |->
                  CellMean([s \in others |-> line[s].avg_unit_price], others),
              market_avg_rrp |-> CellMean([s \in others |-> line[s].avg_rrp], others),
              market_total_quantity |->
                  Whole(SumOver([s \in others |-> line[s].total_quantity], others))]

\* np.where(market > 0, value / market * 100, nan)
PctWhereMarket(value, market) ==
    IF CellGt(market, Whole(0)) THEN CellPctOf(value, market) ELSE NaN

\* One line of the comparison of calculate_store_level_index.
ComparisonLine(p, target, store, category) ==
    LET own == StoreCategoryPrice(p, store, category, target)
        market == MarketAvg(p, target, store, category)
        index == PctWhereMarket(own.avg_unit_price, market.market_avg_unit_price)
    IN  [store |-> store, sub_department |-> category[1], section |-> category[2],
         supplier |-> target,
         avg_unit_price |-> own.avg_unit_price, avg_rrp |-> own.avg_rrp,
         total_quantity |-> own.total_quantity, total_sales |-> own.total_sales,
         avg_discount_from_rrp |-> own.avg_discount_from_rrp,
         market_avg_unit_price |-> market.market_avg_unit_price,
         market_avg_rrp |-> market.market_avg_rrp,
         market_total_quantity |-> market.market_total_quantity,
         price_index |-> index,
         positioning |-> categorize_positioning(index),
         rrp_vs_market_pct |->
             PctWhereMarket(CellSub(own.avg_rrp, market.market_avg_rrp),
                            market.market_avg_rrp)]

\* calculate_store_level_index on the engine's table p: one line per (store,
\* category) in which the target has rows, in groupby order.
StoreLevelIndex(p, target) ==
    LET keys == SortBy({<<p[i].Store, CategoryOf(p[i])>> :
                           i \in {j \in DOMAIN p : p[j].Supplier = target}},
                       StoreCategoryLess)
    IN  [k \in DOMAIN keys |-> ComparisonLine(p, target, keys[k][1], keys[k][2])]
calculate_store_level_index(d, target) == StoreLevelIndex(PricingPrepareData(d), target)

\* An average that gives every line the same weight.
SimpleAverage(index, rows) ==
    CellMean([k \in DOMAIN index |-> index[k].price_index], rows)
\* np.average(values, weights): sum(value * weight) / sum(weight) over the
\* lines of `rows`.
WeightedAverage(index, rows) ==
    LET total == CellSum([k \in DOMAIN index |->
                            Frac(index[k].price_index.num * index[k].total_quantity,
                                 index[k].price_index.den)], rows)
        weight == SumOver([k \in DOMAIN index |-> index[k].total_quantity], rows)
    IN  Frac(total.num, total.den * weight)

\* groupby([sub_department, section]) over the lines `rows` of the index:
\* the mean price_index per category.
CategoryIndexMeans(index, rows) ==
    LET categories == {<<index[k].sub_department, index[k].section>> : k \in rows}
    IN  [c \in categories |->
           CellMean([k \in DOMAIN index |-> index[k].price_index],
                    {k \in rows : <<index[k].sub_department, index[k].section>> = c})]

\* category_summary sorted by total_quantity, largest first, categories of
\* equal quantity in groupby order.
CategorySummary(index) ==
    LET categories == {<<index[k].sub_department, index[k].section>> :
                          k \in DOMAIN index}
        lines(c) == {k \in DOMAIN index :
                        <<index[k].sub_department, index[k].section>> = c}
        quantity(c) == SumOver([k \in DOMAIN index |-> index[k].total_quantity], lines(c))
        before(a, b) ==
            \/ quantity(a) > quantity(b)
            \/ quantity(a) = quantity(b)
                 /\ Rank(CategoryOrder, a) < Rank(CategoryOrder, b)
        order == SortBy(categories, before)
    IN  [n \in DOMAIN order |->
           [sub_department |-> order[n][1], section |-> order[n][2],
            price_index |-> CellMean([k \in DOMAIN index |-> index[k].price_index],
                                     lines(order[n])),
            avg_unit_price |-> CellMean([k \in DOMAIN index |-> index[k].avg_unit_price],
                                        lines(order[n])),
            market_avg_unit_price |->
                CellMean([k \in DOMAIN index |-> index[k].market_avg_unit_price],
                         lines(order[n])),
            total_quantity |-> quantity(order[n])]]

\* The body of calculate_overall_positioning on the index of the target's
\* lines.  np.average raises ZeroDivisionError when
\* the weights sum to zero, as they do when no line of the index has a
\* price_index.
OverallPositioning(index) ==
    LET defined == {k \in DOMAIN index : IsNum(index[k].price_index)}
        labels == {index[k].positioning : k \in DOMAIN index}
        weighted_index == WeightedAverage(index, defined)
    IN  IF defined = {}
        THEN Raises("ZeroDivisionError: Weights sum to zero, can't be normalized")
        ELSE Returns(
            [overall_price_index |-> weighted_index,
             overall_positioning |-> categorize_positioning(weighted_index),
             positioning_distribution |->
                 [l \in labels |->
                     Cardinality({k \in DOMAIN index : index[k].positioning = l})],
             top_categories |-> FirstRows(CategorySummary(index), 10),
             premium_categories |->
                 CategoryIndexMeans(index, {k \in DOMAIN index :
                     index[k].positioning \in {"Premium", "Slight Premium"}}),
             discount_categories |->
                 CategoryIndexMeans(index, {k \in DOMAIN index :
                     index[k].positioning \in {"Discount", "Slight Discount"}})])
\* index_df = self.calculate_store_level_index(target_supplier), and the
\* summary of that index.
calculate_overall_positioning(d, target) ==
    OverallPositioning(calculate_store_level_index(d, target))

(***************************************************************************)
(* The pricing engine as a state machine: a dataset is loaded, and each    *)
(* request builds an analyzer on it, runs one operation for a target       *)
(* supplier (carried in call.filter) and replies.                          *)
(***************************************************************************)
Targets == {"BIDCO", "ACME"}
InitPricing ==
    /\ df \in PricingDatasets
    /\ call = NoCall
    /\ ret = <<>>
    /\ AtRest

PricingRequest(op, target, result) ==
    /\ Idle
    /\ call' = [op |-> op, filter |-> <<target>>]
    /\ ret' = result
    /\ UNCHANGED <<df, service>>

CalculateStoreLevelIndex ==
    \E target \in Targets :
        PricingRequest("calculate_store_level_index", target,
                       Returns(calculate_store_level_index(df, target)))
CalculateOverallPositioning ==
    \E target \in Targets :
        PricingRequest("calculate_overall_positioning", target,
                       calculate_overall_positioning(df, target))

NextPricing ==
    \/ CalculateStoreLevelIndex
    \/ CalculateOverallPositioning
    \/ Reply

SpecPricing == InitPricing /\ [][NextPricing]_vars

(***************************************************************************)
(* Construction of the engines.  A frame is an object on a heap (a         *)
(* sequence of tables); the caller's dataset is the object Source.  A      *)
(* method binds a local name to an object, `x.copy()` makes a new object,  *)
(* and an assignment of a column changes the object the name is bound to.  *)
(***************************************************************************)
Source == 1
\* A copy that hands back the object it was asked to copy.
CopyTargetAlias(heap, id) == id
\* The object a name is bound to by `name = frame.copy()`.
CopyTarget(heap, id) == Len(heap) + 1
\* The heap after frame.copy(), and after the columns of a frame are assigned.
Copy(heap, id) == Append(heap, heap[id])
SetFrame(heap, id, table) == [heap EXCEPT ![id] = table]
\* frame[column] = value, on one row
AddColumns(r, columns) == columns @@ r

\* PromotionAnalyzer.__init__ / _prepare_data
PromotionPrepareOnHeap(heap) ==
    LET local == CopyTarget(heap, Source)
        copied == Copy(heap, Source)
        priced == SetFrame(copied, local,
                      [i \in DOMAIN copied[local] |->
                          AddColumns(copied[local][i],
                                     [unit_price |-> UnitPrice(copied[local][i])])])
        kept == Append(priced, SelectSeq(priced[local], ValidRow))
    IN  [heap |-> kept, columns |-> local, self_df |-> Len(kept)]

\* PricingIndexAnalyzer.__init__ / _prepare_data
PricingPrepareOnHeap(heap) ==
    LET local == CopyTarget(heap, Source)
        copied == Copy(heap, Source)
        priced == SetFrame(copied, local,
                      [i \in DOMAIN copied[local] |->
                          AddColumns(copied[local][i],
                              [unit_price |-> UnitPrice(copied[local][i]),
                               discount_from_rrp_pct |->
                                   DiscountFromRRP(copied[local][i])])])
        kept == Append(priced, SelectSeq(priced[local], PricingValidRow))
    IN  [heap |-> kept, columns |-> local, self_df |-> Len(kept)]

\* DataQualityChecker.__init__: self.df = df.copy()
QualityInitOnHeap(heap) ==
    LET local == CopyTarget(heap, Source)
    IN  [heap |-> Copy(heap, Source), columns |-> local, self_df |-> local]

\* detect_promotions with the columns assigned on self.df itself.
DetectOnHeapInPlace(engine) ==
    LET local == CopyTarget(engine.heap, engine.self_df)
        copied == Copy(engine.heap, engine.self_df)
        assigned == [i \in DOMAIN copied[local] |->
                        AddColumns(copied[local][i],
                                   [discount_pct |-> DiscountPct(copied[local][i]),
                                    is_promo_day |-> IsPromoDay(copied[local][i])])]
    IN  SetFrame(SetFrame(copied, local, assigned), engine.self_df, assigned)
\* detect_promotions on a constructed engine: df = self.df.copy(), then the
\* columns discount_pct and is_promo_day are assigned on df.
DetectOnHeap(engine) ==
    LET local == CopyTarget(engine.heap, engine.self_df)
        copied == Copy(engine.heap, engine.self_df)
    IN  SetFrame(copied, local,
            [i \in DOMAIN copied[local] |->
                AddColumns(copied[local][i],
                           [discount_pct |-> DiscountPct(copied[local][i]),
                            is_promo_day |-> IsPromoDay(copied[local][i])])])

\* check_outliers on a constructed checker: the rows of positive quantity
\* are selected into a new frame, the frame is copied, and unit_price is
\* assigned on the copy.
OutliersOnHeap(engine) ==
    LET selected == Append(engine.heap,
                           SelectSeq(engine.heap[engine.self_df],
                                     LAMBDA r : r.Quantity > 0))
        local == CopyTarget(selected, Len(selected))
        copied == Copy(selected, Len(selected))
    IN  SetFrame(copied, local,
            [i \in DOMAIN copied[local] |->
                AddColumns(copied[local][i],
                           [unit_price |-> UnitPrice(copied[local][i])])])

\* The engines on the datasets of the pricing engine.  A construction
\* returns the frame with the computed columns of every row (columns) and
\* the engine's own table (df); the dataset after the call is the object
\* Source of the heap.
InitEngines ==
    /\ df \in PricingDatasets
    /\ call = NoCall
    /\ ret = <<>>
    /\ AtRest

Construct(op, engine) ==
    /\ Idle
    /\ call' = [op |-> op, filter |-> NoFilter]
    /\ ret' = Returns([columns |-> engine.heap[engine.columns],
                       df |-> engine.heap[engine.self_df]])
    /\ df' = engine.heap[Source]
    /\ UNCHANGED service

NewPromotionAnalyzer == Construct("PromotionAnalyzer", PromotionPrepareOnHeap(<<df>>))
NewPricingIndexAnalyzer == Construct("PricingIndexAnalyzer", PricingPrepareOnHeap(<<df>>))
NewDataQualityChecker == Construct("DataQualityChecker", QualityInitOnHeap(<<df>>))

\* An engine is constructed and the operation is called on it.
ConstructAndDetect ==
    /\ Idle
    /\ call' = [op |-> "detect_promotions", filter |-> NoFilter]
    /\ ret' = Returns(detect_promotions(df))
    /\ df' = DetectOnHeap(PromotionPrepareOnHeap(<<df>>))[Source]
    /\ UNCHANGED service
ConstructAndCheckOutliers ==
    /\ Idle
    /\ call' = [op |-> "check_outliers", filter |-> NoFilter]
    /\ ret' = Returns(check_outliers(df))
    /\ df' = OutliersOnHeap(QualityInitOnHeap(<<df>>))[Source]
    /\ UNCHANGED service

NextEngines ==
    \/ NewPromotionAnalyzer
    \/ NewPricingIndexAnalyzer
    \/ NewDataQualityChecker
    \/ ConstructAndDetect
    \/ ConstructAndCheckOutliers
    \/ Reply

SpecEngines == InitEngines /\ [][NextEngines]_vars

(***************************************************************************)
(* Claims about the construction of the engines, checked under SpecEngines.*)
(***************************************************************************)
Constructed(engine) == call.op = engine /\ ~ret.raised
ClaimHasRRP(r) == r.RRP # Missing /\ r.RRP[1] > 0
\* unit_price of every input row: a number iff the quantity is positive,
\* and then Total Sales / Quantity; no row of quantity <= 0 in an engine's
\* own table.
ClaimUnitPrices ==
    (Constructed("PromotionAnalyzer") \/ Constructed("PricingIndexAnalyzer")) =>
        /\ Len(ret.value.columns) = Len(df)
        /\ \A i \in DOMAIN df :
              /\ IsNum(ret.value.columns[i].unit_price) <=> df[i].Quantity > 0
              /\ df[i].Quantity > 0 =>
                    CellEq(ret.value.columns[i].unit_price,
                           Val(df[i].Total_Sales, df[i].Quantity))
        /\ \A k \in DOMAIN ret.value.df :
              ret.value.df[k].Quantity > 0 /\ IsNum(ret.value.df[k].unit_price)

\* C14 (as claimed): for every input row the unit price is defined iff the
\* quantity is positive, and the discount percentage is defined iff the RRP
\* is present and positive.
C14_DefinedIffAsClaimed ==
    /\ ClaimUnitPrices
    /\ Constructed("PricingIndexAnalyzer") =>
          \A i \in DOMAIN df :
              IsNum(ret.value.columns[i].discount_from_rrp_pct) <=> ClaimHasRRP(df[i])
    /\ call.op = "detect_promotions" =>
          /\ \A k \in DOMAIN ret.value : IsNum(ret.value[k].discount_pct)
          /\ Len(ret.value) = Cardinality({i \in DOMAIN df : ClaimHasRRP(df[i])})

\* C14: for every input row the unit price is defined iff the quantity is
\* positive (and is then Total Sales / Quantity), and the discount
\* percentage is defined iff the quantity is positive and the RRP is
\* present and positive; no row of quantity <= 0 is in an engine's table.
C14_DefinedIff ==
    /\ ClaimUnitPrices
    /\ Constructed("PricingIndexAnalyzer") =>
          \A i \in DOMAIN df :
              IsNum(ret.value.columns[i].discount_from_rrp_pct)
                  <=> (df[i].Quantity > 0 /\ ClaimHasRRP(df[i]))
    /\ call.op = "detect_promotions" =>
          /\ \A k \in DOMAIN ret.value : IsNum(ret.value[k].discount_pct)
          /\ Len(ret.value) = Cardinality({i \in DOMAIN df :
                                              df[i].Quantity > 0 /\ ClaimHasRRP(df[i])})

\* A pricing engine built on a row of quantity zero that has an RRP, a row
\* of positive quantity with RRP, and a row without a valid RRP.
C14_Witness ==
    /\ Constructed("PricingIndexAnalyzer")
    /\ \E i, j, k \in DOMAIN df :
          /\ df[i].Quantity = 0 /\ ClaimHasRRP(df[i])
          /\ ~IsNum(ret.value.columns[i].unit_price)
          /\ df[j].Quantity > 0 /\ ClaimHasRRP(df[j])
          /\ IsNum(ret.value.columns[j].discount_from_rrp_pct)
          /\ df[k].Quantity > 0 /\ ~ClaimHasRRP(df[k])
          /\ ~IsNum(ret.value.columns[k].discount_from_rrp_pct)

\* C15 (as claimed): a row without RRP or with RRP <= 0 is in the table of
\* neither the promotion engine nor the pricing engine, and every row of
\* the dataset is in the table of the data-quality engine.
C15_NoRRPExcluded ==
    /\ (Constructed("PromotionAnalyzer") \/ Constructed("PricingIndexAnalyzer")) =>
          \A k \in DOMAIN ret.value.df : ClaimHasRRP(ret.value.df[k])
    /\ Constructed("DataQualityChecker") => ret.value.df = df

(***************************************************************************)
(* Claims about the price index, checked under SpecPricing.                *)
(***************************************************************************)
ClaimTarget == call.filter[1]
\* The rows the pricing engine analyses.
ClaimTable == PricingPrepareData(df)
ClaimTargetKeys ==
    {<<ClaimTable[i].Store, CategoryOf(ClaimTable[i])>> :
        i \in {j \in DOMAIN ClaimTable : ClaimTable[j].Supplier = ClaimTarget}}
ClaimLineKey(line) == <<line.store, <<line.sub_department, line.section>>>>
\* The rows of one supplier in the store and category of a line.
ClaimSupplierRows(line, supplier) ==
    {i \in DOMAIN ClaimTable : /\ ClaimTable[i].Store = line.store
                               /\ CategoryOf(ClaimTable[i]) = ClaimLineKey(line)[2]
                               /\ ClaimTable[i].Supplier = supplier}
ClaimCompetitors(line) ==
    {s \in {ClaimTable[i].Supplier : i \in DOMAIN ClaimTable} :
        s # ClaimTarget /\ ClaimSupplierRows(line, s) # {}}
ClaimSupplierMean(line, supplier) ==
    CellMean([i \in DOMAIN ClaimTable |-> ClaimTable[i].unit_price],
             ClaimSupplierRows(line, supplier))
\* The simple mean of the competitors' mean unit prices, NaN without one.
ClaimMarketMean(line) ==
    CellMean([s \in ClaimCompetitors(line) |-> ClaimSupplierMean(line, s)],
             ClaimCompetitors(line))
ClaimIndexDefined(line) == CellGt(ClaimMarketMean(line), Whole(0))
ClaimLineAsSpecified(line) ==
    /\ line.avg_unit_price = ClaimSupplierMean(line, ClaimTarget)
    /\ line.market_avg_unit_price = ClaimMarketMean(line)
    /\ ClaimIndexDefined(line) =>
          /\ IsNum(line.price_index)
          /\ line.price_index.num * line.market_avg_unit_price.num
                 * line.avg_unit_price.den
               = 100 * line.avg_unit_price.num * line.market_avg_unit_price.den
                     * line.price_index.den
    /\ ~ClaimIndexDefined(line) =>
          ~IsNum(line.price_index) /\ line.positioning = "No Competition"
    /\ (ClaimIndexDefined(line)
          /\ CellEq(line.avg_unit_price, line.market_avg_unit_price)) =>
          line.price_index = Whole(100) /\ line.positioning = "At Market"

\* C16: calculate_store_level_index returns exactly one line per (store,
\* sub_department, section) in which the target supplier has a row in the
\* engine's table; the market average of a line is the simple mean of the
\* mean unit prices of the other suppliers there, the target never among
\* them; price_index is target average / market average * 100 when the
\* market average exists and is > 0, undefined with positioning
\* 'No Competition' otherwise; a target average equal to the market average
\* gives the index 100 exactly and 'At Market'.
C16_StoreLevelIndex ==
    call.op = "calculate_store_level_index" =>
        /\ ~ret.raised
        /\ Len(ret.value) = Cardinality(ClaimTargetKeys)
        /\ {ClaimLineKey(ret.value[k]) : k \in DOMAIN ret.value} = ClaimTargetKeys
        /\ \A k \in DOMAIN ret.value : ClaimLineAsSpecified(ret.value[k])

\* An index with two lines: one whose market has two competitors with
\* different numbers of rows, so that the mean of the suppliers' means is
\* not the mean of their rows, and one at the market price exactly.
C16_Witness ==
    /\ call.op = "calculate_store_level_index"
    /\ \E k, n \in DOMAIN ret.value :
          /\ Cardinality(ClaimCompetitors(ret.value[k])) = 2
          /\ \E s \in ClaimCompetitors(ret.value[k]) :
                Cardinality(ClaimSupplierRows(ret.value[k], s)) = 2
          /\ ret.value[k].market_avg_unit_price = Val(43, 4)
          /\ IsNum(ret.value[k].price_index)
          /\ ret.value[n].price_index = Whole(100)

(***************************************************************************)
(* _categorize_positioning on its own: the function is applied to an       *)
(* index drawn from the tenths around its thresholds, or to NaN.           *)
(***************************************************************************)
MaxTenths == 1300
Indexes == {NaN} \cup {Frac(t, 10) : t \in -20 .. MaxTenths}
InitPositioning ==
    /\ df = <<>>
    /\ call = NoCall
    /\ ret = <<>>
    /\ AtRest
CategorizePositioning ==
    \E price_index \in Indexes :
        /\ Idle
        /\ call' = [op |-> "_categorize_positioning", filter |-> NoFilter]
        /\ ret' = Returns([price_index |-> price_index,
                           positioning |-> categorize_positioning(price_index)])
        /\ UNCHANGED <<df, service>>
NextPositioning ==
    \/ CategorizePositioning
    \/ Reply
SpecPositioning == InitPositioning /\ [][NextPositioning]_vars

ClaimLabels ==
    {"No Competition", "Premium", "Slight Premium", "At Market",
     "Slight Discount", "Discount"}
\* The label the documentation gives an index, as a set: the labels whose
\* range holds the index.
ClaimLabelsOf(x) ==
    {l \in ClaimLabels :
        \/ l = "No Competition" /\ ~IsNum(x)
        \/ l = "Premium" /\ CellGe(x, Whole(110))
        \/ l = "Slight Premium" /\ CellGe(x, Whole(105)) /\ CellLt(x, Whole(110))
        \/ l = "At Market" /\ CellGe(x, Whole(95)) /\ CellLt(x, Whole(105))
        \/ l = "Slight Discount" /\ CellGe(x, Whole(90)) /\ CellLt(x, Whole(95))
        \/ l = "Discount" /\ CellLt(x, Whole(90))}

\* C17: _categorize_positioning gives every index exactly one label, the
\* one whose range holds it: no index -> 'No Competition', >= 110 ->
\* 'Premium', [105, 110) -> 'Slight Premium', [95, 105) -> 'At Market',
\* [90, 95) -> 'Slight Discount', < 90 -> 'Discount'; 110, 105, 95 and 90
\* themselves get 'Premium', 'Slight Premium', 'At Market' and
\* 'Slight Discount'.
C17_Positioning ==
    call.op = "_categorize_positioning" =>
        /\ ~ret.raised
        /\ ClaimLabelsOf(ret.value.price_index) = {ret.value.positioning}
        /\ ret.value.price_index = Whole(110) => ret.value.positioning = "Premium"
        /\ ret.value.price_index = Whole(105) => ret.value.positioning = "Slight Premium"
        /\ ret.value.price_index = Whole(95) => ret.value.positioning = "At Market"
        /\ ret.value.price_index = Whole(90) => ret.value.positioning = "Slight Discount"

\* The index exactly on the lowest threshold has been categorised.
C17_Witness ==
    /\ call.op = "_categorize_positioning"
    /\ ret.value.price_index = Whole(90)
    /\ ret.value.positioning = "Slight Discount"

\* C18 (as claimed): calculate_overall_positioning returns a result for
\* every dataset and every target supplier, and never raises, also when no
\* line of the store-level index has a price_index.
C18_OverallNeverRaises ==
    call.op = "calculate_overall_positioning" => ~ret.raised

(***************************************************************************)
(* Claims about the summary report, checked under SpecQuality.             *)
(***************************************************************************)
\* C19 (as claimed): generate_summary_report returns a report for every
\* dataset and never raises; a dataset in which no row has a supplier gives
\* empty supplier health lists, and a dataset without rows empty store
\* health lists.
C19_ReportNeverRaises ==
    call.op = "generate_summary_report" =>
        /\ ~ret.raised
        /\ (\A i \in DOMAIN df : df[i].Supplier = NoSupplier) =>
              /\ ret.value.supplier_health_top_10 = <<>>
              /\ ret.value.supplier_health_bottom_10 = <<>>
        /\ df = <<>> =>
              /\ ret.value.store_health_top_10 = <<>>
              /\ ret.value.store_health_bottom_10 = <<>>

(***************************************************************************)
(* The source dataset, checked under SpecEngines.                          *)
(***************************************************************************)
\* C20: constructing an engine on the dataset, and calling its operations,
\* leaves the dataset as it was: the same rows, the same columns (no
\* unit_price, discount or promotion column) and the same values; the
\* computed columns are on the engine's own copy.
C20_SourceUnchanged == [][df' = df]_vars

\* An engine has been constructed on a dataset with rows: its frame carries
\* unit_price on every row and the rows of the dataset carry none.
C20_Witness ==
    /\ Constructed("PromotionAnalyzer") \/ Constructed("PricingIndexAnalyzer")
    /\ df # <<>>
    /\ Len(ret.value.columns) = Len(df)
    /\ \A i \in DOMAIN df :
          /\ "unit_price" \in DOMAIN ret.value.columns[i]
          /\ "unit_price" \notin DOMAIN df[i]

(***************************************************************************)
(* An engine instance that lives across calls.  A caller constructs one     *)
(* engine on the dataset and then calls its operations one after another;  *)
(* the frames an operation bound to its local names are dropped when it    *)
(* returns, the dataset and the engine's own table stay.                   *)
(***************************************************************************)
MaxCalls == 3
\* The objects still referenced after a call: the dataset and self.df.
Collect(heap, self_df) == <<heap[Source], heap[self_df]>>
SelfTable == instance.heap[instance.self_df]

NewInstance(kind, engine) ==
    /\ Idle
    /\ instance = NoInstance
    /\ instance' = [kind |-> kind, heap |-> Collect(engine.heap, engine.self_df),
                    self_df |-> Len(Collect(engine.heap, engine.self_df)),
                    calls |-> 0]
    /\ df' = engine.heap[Source]
    /\ UNCHANGED <<call, ret, DATA, threads, reads>>
HoldPromotionAnalyzer ==
    /\ df \in PromoDatasets
    /\ NewInstance("PromotionAnalyzer", PromotionPrepareOnHeap(<<df>>))
HoldPricingIndexAnalyzer ==
    /\ df \in PricingDatasets
    /\ NewInstance("PricingIndexAnalyzer", PricingPrepareOnHeap(<<df>>))
HoldDataQualityChecker ==
    NewInstance("DataQualityChecker", QualityInitOnHeap(<<df>>))

\* One call of an operation on the instance: its result, and the heap it
\* leaves.
Operation(kind, op, filter, result, after) ==
    /\ Idle
    /\ instance.kind = kind
    /\ instance.calls < MaxCalls
    /\ call' = [op |-> op, filter |-> filter]
    /\ ret' = result
    /\ instance' = [instance EXCEPT !.heap = Collect(after, instance.self_df),
                                    !.calls = @ + 1]
    /\ df' = after[Source]
    /\ UNCHANGED <<DATA, threads, reads>>

\* The table detect_promotions returns: its local frame, completed.
DetectedOnInstance ==
    DetectOnPrepared(
        DetectOnHeap(instance)[CopyTarget(instance.heap, instance.self_df)])

CallDetectPromotions ==
    Operation("PromotionAnalyzer", "detect_promotions", NoFilter,
              DetectedOnInstance, DetectOnHeap(instance))
CallCalculateKpis ==
    \E f \in Filters :
        /\ instance.kind = "PromotionAnalyzer"
        /\ KpisDefined(df, f)
        /\ Operation("PromotionAnalyzer", "calculate_kpis", f,
                     KpisOfFiltered(FilterDetected(DetectedOnInstance, f)),
                     DetectOnHeap(instance))
CallCheckOutliers ==
    Operation("DataQualityChecker", "check_outliers", NoFilter,
              Returns(check_outliers(SelfTable)), OutliersOnHeap(instance))
CallStoreLevelIndex ==
    \E target \in Targets :
        Operation("PricingIndexAnalyzer", "calculate_store_level_index", <<target>>,
                  Returns(StoreLevelIndex(SelfTable, target)), instance.heap)

InitSession ==
    /\ df \in PromoDatasets \cup PricingDatasets
    /\ call = NoCall
    /\ ret = <<>>
    /\ AtRest
NextSession ==
    \/ HoldPromotionAnalyzer
    \/ HoldPricingIndexAnalyzer
    \/ HoldDataQualityChecker
    \/ CallDetectPromotions
    \/ CallCalculateKpis
    \/ CallCheckOutliers
    \/ CallStoreLevelIndex
    \/ Reply
SpecSession == InitSession /\ [][NextSession]_vars

\* The result a freshly constructed engine gives on the dataset.
ClaimFreshResult ==
    /\ call.op = "detect_promotions" => ret = detect_promotions(df)
    /\ call.op = "calculate_kpis" => ret = calculate_kpis(df, call.filter)
    /\ call.op = "check_outliers" => ret = Returns(check_outliers(df))
    /\ call.op = "calculate_store_level_index" =>
          ret = Returns(calculate_store_level_index(df, call.filter[1]))
\* A call on an instance leaves the table of the instance as it was.
ClaimTableKept ==
    instance # NoInstance =>
        /\ instance'.heap = instance.heap
        /\ instance'.self_df = instance.self_df

\* C21: every call of an operation on an engine instance leaves the
\* engine's own table unchanged, and returns what the operation returns on
\* an engine freshly constructed on the same dataset, whichever operations
\* ran before and however often.
C21_Stateless == []ClaimFreshResult /\ [][ClaimTableKept]_vars

\* The third call in a row on one promotion engine has returned a KPI
\* table for a supplier filter.
C21_Witness ==
    /\ instance.kind = "PromotionAnalyzer"
    /\ instance.calls = MaxCalls
    /\ call.op = "calculate_kpis"
    /\ call.filter # NoFilter
    /\ Len(ret.detailed_data) > 0

(***************************************************************************)
(* The API process.  The startup handler calls load_data; the endpoints    *)
(* run in threads, and each calls load_data and builds an engine on the    *)
(* table it got.  load_data is followed statement by statement, so that    *)
(* threads interleave between the test of DATA, the read of the file, the  *)
(* assignment of DATA and the return.  The file holds the table df.        *)
(***************************************************************************)
MaxReads == 2
Procs == {"startup", "r1", "r2"}
Endpoints == Procs \ {"startup"}
At(t) == threads[t].at
Goto(t, at) == threads' = [threads EXCEPT ![t].at = at]

\* A load_data that reads the file on every call.
NeedsLoadAlways(data) == TRUE
\* if DATA is None
NeedsLoad(data) == data = None

\* A thread calls load_data.  The handlers of the startup event complete
\* before the application receives requests, and a handler that raises
\* stops the application.
CallLoadData(t) ==
    /\ At(t) = "idle"
    /\ t \in Endpoints => At("startup") = "done"
    /\ Goto(t, "test")
    /\ UNCHANGED <<df, call, ret, instance, DATA, reads>>
TestData(t) ==
    /\ At(t) = "test"
    /\ Goto(t, IF NeedsLoad(DATA) THEN "read" ELSE "return")
    /\ UNCHANGED <<df, call, ret, instance, DATA, reads>>
\* pd.read_excel(DATA_FILE_PATH) returns the table of the file
ReadExcel(t) ==
    /\ At(t) = "read"
    /\ reads < MaxReads
    /\ threads' = [threads EXCEPT ![t] = [at |-> "assign", got |-> Some(df)]]
    /\ reads' = reads + 1
    /\ UNCHANGED <<df, call, ret, instance, DATA>>
\* pd.read_excel raises; the handler prints and re-raises
ReadExcelRaises(t) ==
    /\ At(t) = "read"
    /\ Goto(t, "raised")
    /\ UNCHANGED <<df, call, ret, instance, DATA, reads>>
\* DATA = <the table read>
AssignData(t) ==
    /\ At(t) = "assign"
    /\ DATA' = threads[t].got
    /\ Goto(t, "return")
    /\ UNCHANGED <<df, call, ret, instance, reads>>
\* return DATA
ReturnData(t) ==
    /\ At(t) = "return"
    /\ threads' = [threads EXCEPT ![t] = [at |-> IF t = "startup" THEN "done"
                                                 ELSE "loaded",
                                          got |-> DATA]]
    /\ UNCHANGED <<df, call, ret, instance, DATA, reads>>
\* The endpoint builds its engine on the table load_data returned, which is
\* the object DATA holds, and responds.
Serve(t, engine) ==
    /\ t \in Endpoints
    /\ At(t) = "loaded"
    /\ DATA' = Some(engine.heap[Source])
    /\ Goto(t, "idle")
    /\ UNCHANGED <<df, call, ret, instance, reads>>
GetDataQuality(t) == Serve(t, QualityInitOnHeap(DATA))
GetPromoSummary(t) == Serve(t, PromotionPrepareOnHeap(DATA))
GetPriceIndex(t) == Serve(t, PricingPrepareOnHeap(DATA))

InitApi ==
    /\ df \in PricingDatasets
    /\ call = NoCall
    /\ ret = <<>>
    /\ instance = NoInstance
    /\ DATA = None
    /\ threads = [t \in Procs |-> [at |-> "idle", got |-> None]]
    /\ reads = 0
NextApi ==
    \E t \in Procs :
        \/ CallLoadData(t)
        \/ TestData(t)
        \/ ReadExcel(t)
        \/ ReadExcelRaises(t)
        \/ AssignData(t)
        \/ ReturnData(t)
        \/ GetDataQuality(t)
        \/ GetPromoSummary(t)
        \/ GetPriceIndex(t)
SpecApi == InitApi /\ [][NextApi]_vars

\* Once DATA is set no step assigns it another table or reads the file.
ClaimLoadedOnce == DATA # None => (DATA' = DATA /\ reads' = reads)
\* A thread that load_data has returned to holds the table of DATA, which
\* is the table of the file; a thread in which the load failed has raised
\* and DATA is unset.
ClaimReturned ==
    \A t \in Procs :
        /\ At(t) \in {"loaded", "done"} =>
              threads[t].got = DATA /\ DATA = Some(df) /\ reads = 1
        /\ At(t) = "raised" => DATA = None

ClaimTerm(weight, defects, total) ==
    IF defects < total THEN weight * (total - defects) ELSE 0
ClaimCount(rows, Defect(_)) == Cardinality({i \in rows : Defect(df[i])})
ClaimNoSupplier(r) == r.Supplier = NoSupplier
ClaimNoRRP(r) == r.RRP = Missing
ClaimNegativeQty(r) == r.Quantity < 0
ClaimNegativeSales(r) == r.Total_Sales < 0
ClaimZeroQtySales(r) == r.Quantity = 0 /\ r.Total_Sales > 0
\* The rows that are not the first of their key among `rows`.
ClaimLaterOfKey(rows) ==
    Cardinality(rows) - Cardinality({ClusterKey(df[i]) : i \in rows})
\* The score of the documentation for a group of rows, times twice the
\* number of rows.
ClaimStoreScore2n(rows) ==
    LET n == Cardinality(rows)
    IN  ClaimTerm(30, ClaimCount(rows, ClaimNoSupplier) + ClaimCount(rows, ClaimNoRRP),
                  2 * n)
        + 2 * ClaimTerm(40, ClaimCount(rows, ClaimNegativeQty)
                              + ClaimCount(rows, ClaimNegativeSales), n)
        + 2 * ClaimTerm(30, ClaimLaterOfKey(rows), n)
ClaimSupplierScore2n(rows) ==
    LET n == Cardinality(rows)
    IN  2 * ClaimTerm(30, ClaimCount(rows, ClaimNoRRP), n)
        + 2 * ClaimTerm(40, ClaimCount(rows, ClaimNegativeQty)
                              + ClaimCount(rows, ClaimNegativeSales)
                              + ClaimCount(rows, ClaimZeroQtySales), n)
        + 2 * ClaimTerm(30, ClaimLaterOfKey(rows), n)
ClaimGroup(line) ==
    IF call.op = "calculate_store_health_score"
    THEN {i \in DOMAIN df : df[i].Store = line.store}
    ELSE {i \in DOMAIN df : df[i].Supplier = line.supplier}
ClaimScore2n(line) ==
    IF call.op = "calculate_store_health_score"
    THEN ClaimStoreScore2n(ClaimGroup(line))
    ELSE ClaimSupplierScore2n(ClaimGroup(line))
ClaimFlawless(line) ==
    LET rows == ClaimGroup(line)
    IN  /\ ClaimCount(rows, ClaimNoRRP) = 0
        /\ ClaimCount(rows, ClaimNegativeQty) = 0
        /\ ClaimCount(rows, ClaimNegativeSales) = 0
        /\ ClaimLaterOfKey(rows) = 0
        /\ IF call.op = "calculate_store_health_score"
           THEN ClaimCount(rows, ClaimNoSupplier) = 0
           ELSE ClaimCount(rows, ClaimZeroQtySales) = 0
ClaimScored ==
    /\ call.op \in {"calculate_store_health_score", "calculate_supplier_health_score"}
    /\ ~ret.raised
ClaimSortedAndFull ==
    /\ \A k \in DOMAIN ret.value :
          ClaimFlawless(ret.value[k]) => ret.value[k].health_score = Val(10000, 100)
    /\ \A k \in 1 .. (Len(ret.value) - 1) :
          CellGe(ret.value[k].health_score, ret.value[k + 1].health_score)

\* C23 (as claimed): the health_score of every store and of every supplier
\* is the sum of the three floored terms itself; a group without defect
\* scores 100 and both tables are sorted by health_score, highest first.
C23_ScoreFormulaAsClaimed ==
    ClaimScored =>
        /\ \A k \in DOMAIN ret.value :
              CellEq(ret.value[k].health_score,
                     Val(ClaimScore2n(ret.value[k]),
                         2 * Cardinality(ClaimGroup(ret.value[k]))))
        /\ ClaimSortedAndFull

\* C23: the health_score of every store and of every supplier is the sum
\* max(0, 30*(1 - missing_rate)) + max(0, 40*(1 - outlier_rate))
\* + max(0, 30*(1 - duplicate_rate)) rounded to two decimals, with the
\* missing rate (missing supplier + missing RRP) / (2 * rows) for a store
\* and missing RRP / rows for a supplier, whose outliers also count the
\* rows of zero quantity with positive sales; a group without defect scores
\* 100 and both tables are sorted by health_score, highest first.
C23_ScoreFormula ==
    ClaimScored =>
        /\ \A k \in DOMAIN ret.value :
              ret.value[k].health_score =
                  Val(Round2(ClaimScore2n(ret.value[k]),
                             2 * Cardinality(ClaimGroup(ret.value[k]))), 100)
        /\ ClaimSortedAndFull

\* A supplier table with a line whose rows hold a sale of zero quantity and
\* whose exact score has more than two decimals.
C23_Witness ==
    /\ call.op = "calculate_supplier_health_score"
    /\ ~ret.raised
    /\ \E k \in DOMAIN ret.value :
          /\ ClaimCount(ClaimGroup(ret.value[k]), ClaimZeroQtySales) > 0
          /\ ~CellEq(ret.value[k].health_score,
                     Val(ClaimScore2n(ret.value[k]),
                         2 * Cardinality(ClaimGroup(ret.value[k]))))

(***************************************************************************)
(* Claims about the overall positioning, checked under SpecPricing.        *)
(***************************************************************************)
ClaimIndex == calculate_store_level_index(df, ClaimTarget)
ClaimDefinedLines == {k \in DOMAIN ClaimIndex : IsNum(ClaimIndex[k].price_index)}
\* sum(index_i * qty_i) and sum(qty_i) over the lines with an index
ClaimWeightedTotal ==
    CellSum([k \in DOMAIN ClaimIndex |->
                Frac(ClaimIndex[k].price_index.num * ClaimIndex[k].total_quantity,
                     ClaimIndex[k].price_index.den)],
            ClaimDefinedLines)
ClaimWeight ==
    SumOver([k \in DOMAIN ClaimIndex |-> ClaimIndex[k].total_quantity], ClaimDefinedLines)

\* C24: when a store-level index is defined, overall_price_index is
\* sum(index_i * qty_i) / sum(qty_i) over exactly the lines with a defined
\* index, qty_i being the target's summed quantity of the line; it lies
\* between the smallest and the largest defined index, and
\* overall_positioning is the category of that value.
C24_OverallIndex ==
    (call.op = "calculate_overall_positioning" /\ ClaimDefinedLines # {}) =>
        /\ ~ret.raised
        /\ IsNum(ret.value.overall_price_index)
        /\ ret.value.overall_price_index.num * ClaimWeightedTotal.den * ClaimWeight
             = ClaimWeightedTotal.num * ret.value.overall_price_index.den
        /\ \E k \in ClaimDefinedLines :
              CellGe(ret.value.overall_price_index, ClaimIndex[k].price_index)
        /\ \E k \in ClaimDefinedLines :
              CellGe(ClaimIndex[k].price_index, ret.value.overall_price_index)
        /\ ret.value.overall_positioning
             = categorize_positioning(ret.value.overall_price_index)

\* An overall index over lines of different quantities and indexes, next
\* to a line without index.
C24_Witness ==
    /\ call.op = "calculate_overall_positioning"
    /\ ~ret.raised
    /\ \E k, n \in ClaimDefinedLines :
          /\ ClaimIndex[k].total_quantity # ClaimIndex[n].total_quantity
          /\ ~CellEq(ClaimIndex[k].price_index, ClaimIndex[n].price_index)
    /\ \E k \in DOMAIN ClaimIndex : ~IsNum(ClaimIndex[k].price_index)
    /\ ~CellEq(ret.value.overall_price_index,
               CellMean([k \in DOMAIN ClaimIndex |-> ClaimIndex[k].price_index],
                        ClaimDefinedLines))

(***************************************************************************)
(* generate_commercial_insights.  An insight is modelled by its kind, the   *)
(* SKU description it names and the uplift and coverage figures it quotes. *)
(***************************************************************************)
TopSkuCount == 10
LowCoverageUnder == 50
OpportunityUpliftOver == 50
OpportunityCoverageUnder == 30

\* pivot_df.nlargest(10, 'quantity_uplift_pct'): the lines of the highest
\* uplift, lines of equal uplift in the order of the pivot.
TopSkus(detail) ==
    LET before(a, b) ==
            \/ CellGt(detail[a].quantity_uplift_pct, detail[b].quantity_uplift_pct)
            \/ CellEq(detail[a].quantity_uplift_pct, detail[b].quantity_uplift_pct)
                 /\ a < b
        order == SortBy(DOMAIN detail, before)
    IN  FirstRows([k \in DOMAIN order |-> detail[order[k]]], TopSkuCount)
\* summary['avg_promo_uplift']: the mean of the positive uplifts, 0.0
\* without one.
AvgPromoUplift(detail) ==
    FillNa(CellMean([k \in DOMAIN detail |-> detail[k].quantity_uplift_pct],
                    {k \in DOMAIN detail :
                        CellGt(detail[k].quantity_uplift_pct, Whole(0))}))
\* summary['avg_promo_coverage']
AvgPromoCoverage(detail) ==
    CellMean([k \in DOMAIN detail |-> detail[k].promo_coverage_pct], DOMAIN detail)
Insight(kind, description, uplift, coverage) ==
    [kind |-> kind, Description |-> description,
     quantity_uplift_pct |-> uplift, promo_coverage_pct |-> coverage]
\* The SKUs of a list with uplift > 50 and coverage < 30.
HighUpliftLowCoverage(skus) ==
    SelectSeq(skus, LAMBDA sku :
        /\ CellGt(sku.quantity_uplift_pct, Whole(OpportunityUpliftOver))
        /\ CellLt(sku.promo_coverage_pct, Whole(OpportunityCoverageUnder)))
\* Insight 4: the first SKU of the list, when there is one.
OpportunityInsights(candidates) ==
    IF candidates # <<>>
    THEN <<Insight("Opportunity", candidates[1].Description,
                   candidates[1].quantity_uplift_pct,
                   candidates[1].promo_coverage_pct)>>
    ELSE <<>>
\* PromotionAnalyzer(d).generate_commercial_insights(filter)
generate_commercial_insights(d, filter) ==
    LET detail == calculate_kpis(d, filter).detailed_data
        top_skus == TopSkus(detail)
        avg_promo_uplift == AvgPromoUplift(detail)
        avg_promo_coverage == AvgPromoCoverage(detail)
    IN  (IF CellGt(avg_promo_uplift, Whole(0))
         THEN <<Insight("Uplift", "", avg_promo_uplift, avg_promo_coverage)>>
         ELSE <<>>)
        \o (IF CellLt(avg_promo_coverage, Whole(LowCoverageUnder))
            THEN <<Insight("Low coverage", "", avg_promo_uplift, avg_promo_coverage)>>
            ELSE <<>>)
        \o (IF Len(top_skus) > 0
            THEN <<Insight("Top performer", top_skus[1].Description,
                           top_skus[1].quantity_uplift_pct,
                           top_skus[1].promo_coverage_pct)>>
            ELSE <<>>)
        \o OpportunityInsights(HighUpliftLowCoverage(top_skus))

\* Datasets of four stores: SKU I1 is sold at S1 on two days and at S2,
\* SKU I2 at S3 on two days and at S4.
InsightKinds == {Discounted, FullPrice, NearMiss, NoRRP}
InsightDataset(a, b, c, e) ==
    <<MkRow("S1", Bidco1, 1, a), MkRow("S1", Bidco1, 2, a),
      MkRow("S2", Bidco1, 1, b),
      MkRow("S3", Acme2, 1, c), MkRow("S3", Acme2, 2, c),
      MkRow("S4", Acme2, 1, e)>>
InsightDatasets ==
    {InsightDataset(a, b, c, e) : a \in InsightKinds, b \in InsightKinds,
                                  c \in InsightKinds, e \in InsightKinds}

InitInsights ==
    /\ df \in PromoDatasets \cup InsightDatasets
    /\ call = NoCall
    /\ ret = <<>>
    /\ AtRest
GenerateCommercialInsights ==
    \E f \in Filters :
        /\ Idle
        /\ KpisDefined(df, f)
        /\ call' = [op |-> "generate_commercial_insights", filter |-> f]
        /\ ret' = generate_commercial_insights(df, f)
        /\ UNCHANGED <<df, service>>
NextInsights ==
    \/ GenerateCommercialInsights
    \/ Reply
SpecInsights == InitInsights /\ [][NextInsights]_vars

\* The lines of the KPI detail table with uplift > 50 and coverage < 30.
ClaimDetail == calculate_kpis(df, call.filter).detailed_data
ClaimScaleUp ==
    {k \in DOMAIN ClaimDetail :
        /\ CellGt(ClaimDetail[k].quantity_uplift_pct, Whole(50))
        /\ CellLt(ClaimDetail[k].promo_coverage_pct, Whole(30))}
ClaimInsightsOf(kind) == {n \in DOMAIN ret : ret[n].kind = kind}

\* C25 (as claimed): every SKU of the KPI detail table with uplift > 50 and
\* coverage < 30 is named by an 'Opportunity' insight, there is no
\* Opportunity insight when there is no such SKU, and the low-coverage
\* warning is there iff the mean coverage is < 50.
C25_Opportunities ==
    call.op = "generate_commercial_insights" =>
        /\ \A k \in ClaimScaleUp :
              \E n \in ClaimInsightsOf("Opportunity") :
                  ret[n].Description = ClaimDetail[k].Description
        /\ ClaimScaleUp = {} => ClaimInsightsOf("Opportunity") = {}
        /\ ClaimInsightsOf("Low coverage") # {}
             <=> CellLt(CellMean([k \in DOMAIN ClaimDetail |->
                                     ClaimDetail[k].promo_coverage_pct],
                                 DOMAIN ClaimDetail), Whole(50))

====
